---------------------------- MODULE Spec2Model ----------------------------
(***************************************************************************)
(* Vault index and rename coordinator of the Electron main process.        *)
(* Strings are sequences of one-character strings, so that the regular     *)
(* expressions of the source are modelled by what they match.              *)
(***************************************************************************)
EXTENDS Integers, Sequences, FiniteSets, TLC

(***************************************************************************)
(* Characters and strings                                                  *)
(***************************************************************************)
UpperChars == <<"A", "B", "C", "D", "E", "F", "G", "H", "I", "J", "K", "L", "M",
                "N", "O", "P", "Q", "R", "S", "T", "U", "V", "W", "X", "Y", "Z">>

LowerChars == <<"a", "b", "c", "d", "e", "f", "g", "h", "i", "j", "k", "l", "m",
                "n", "o", "p", "q", "r", "s", "t", "u", "v", "w", "x", "y", "z">>

DigitChars == {"0", "1", "2", "3", "4", "5", "6", "7", "8", "9"}

Range(s) == {s[i] : i \in DOMAIN s}

UpperSet == Range(UpperChars)

LowerSet == Range(LowerChars)

AlnumSet == UpperSet \cup LowerSet \cup DigitChars

\* the place of a letter in the alphabet
LetterIndex ==
  [c \in UpperSet \cup LowerSet |->
     CHOOSE i \in DOMAIN UpperChars : UpperChars[i] = c \/ LowerChars[i] = c]

IsUpper(c) == c \in UpperSet

IsAlnum(c) == c \in AlnumSet

\* String.prototype.toLowerCase, one character
ToLowerChar(c) == IF c \in UpperSet THEN LowerChars[LetterIndex[c]] ELSE c

toLowerCase(s) == [i \in DOMAIN s |-> ToLowerChar(s[i])]

\* the character U+0060, which a TLA+ string cannot hold
Backtick == "backtick"

\* the white space String.prototype.trim removes
IsSpace(c) == c \in {" ", "\n", "\r", "\t"}

RECURSIVE trimStart(_)
trimStart(s) ==
  IF s # <<>> /\ IsSpace(Head(s)) THEN trimStart(Tail(s)) ELSE s

RECURSIVE trimEnd(_)
trimEnd(s) ==
  IF s # <<>> /\ IsSpace(s[Len(s)]) THEN trimEnd(SubSeq(s, 1, Len(s) - 1)) ELSE s

trim(s) == trimEnd(trimStart(s))

normalizeTitle(value) == toLowerCase(trim(value))

\* s.startsWith(p)
startsWith(s, p) == Len(s) >= Len(p) /\ SubSeq(s, 1, Len(p)) = p

\* the end of the longest run of characters satisfying the class, from i
\* (a greedy X* of the regular expressions; i when the run is empty)
RECURSIVE RunEnd(_, _, _)
RunEnd(s, i, excluded) ==
  IF i <= Len(s) /\ s[i] \notin excluded THEN RunEnd(s, i + 1, excluded) ELSE i

(***************************************************************************)
(* wikiLinkRegex  /(!?)\[\[([^\]|]+)(\|[^\]]+)?\]\]/g                      *)
(***************************************************************************)
NoMatch == [ok |-> FALSE]

\* "\]\]" at aEnd closes the token whose target is s[t0..t1-1] and whose
\* alias group is s[t1..aEnd-1]
WikiClose(s, t0, t1, aEnd) ==
  IF aEnd + 1 <= Len(s) /\ s[aEnd] = "]" /\ s[aEnd + 1] = "]"
    THEN [ok |-> TRUE, target |-> SubSeq(s, t0, t1 - 1), alias |-> SubSeq(s, t1, aEnd - 1),
          next |-> aEnd + 2]
    ELSE NoMatch

\* "(\|[^\]]+)?" at t1, a1 being the end of the greedy run after a "|": the
\* group takes part only when the run has a character
WikiAlias(s, t0, t1, a1) == WikiClose(s, t0, t1, IF a1 > t1 + 1 THEN a1 ELSE t1)

\* "([^\]|]+)" from t0 has ended at t1
WikiTarget(s, t0, t1) ==
  IF t1 = t0 THEN NoMatch
  ELSE WikiAlias(s, t0, t1,
                 IF t1 <= Len(s) /\ s[t1] = "|" THEN RunEnd(s, t1 + 1, {"]"}) ELSE t1)

\* the match of "\[\[([^\]|]+)(\|[^\]]+)?\]\]" that starts exactly at i
WikiBodyAt(s, i) ==
  IF i + 1 <= Len(s) /\ s[i] = "[" /\ s[i + 1] = "["
    THEN WikiTarget(s, i + 2, RunEnd(s, i + 2, {"]", "|"}))
    ELSE NoMatch

WithEmbed(m, embed, start) ==
  IF m.ok THEN m @@ [embed |-> embed, start |-> start] ELSE NoMatch

\* the match of wikiLinkRegex that starts exactly at i: (!?) is greedy, and
\* without the "!" the expression cannot match at a "!"
WikiMatchAt(s, i) ==
  IF i <= Len(s) /\ s[i] = "!"
    THEN WithEmbed(WikiBodyAt(s, i + 1), <<"!">>, i)
    ELSE WithEmbed(WikiBodyAt(s, i), <<>>, i)

\* all matches of the global expression, left to right, not overlapping
RECURSIVE WikiMatches(_, _)
WikiMatchesFrom(s, i, m) ==
  IF m.ok THEN <<m>> \o WikiMatches(s, m.next) ELSE WikiMatches(s, i + 1)

WikiMatches(s, i) ==
  IF i > Len(s) THEN <<>> ELSE WikiMatchesFrom(s, i, WikiMatchAt(s, i))

parseWikiLinks(content) ==
  LET ms == WikiMatches(content, 1)
  IN [k \in DOMAIN ms |-> normalizeTitle(ms[k].target)]

\* resolveTitle: map.get(normalizeTitle(title)) ?? null
Null == <<>>

MapGet(map, key) == IF key \in DOMAIN map THEN map[key] ELSE Null

MapSet(map, key, value) ==
  [k \in DOMAIN map \cup {key} |-> IF k = key THEN value ELSE map[k]]

MapDelete(map, key) == [k \in DOMAIN map \ {key} |-> map[k]]

EmptyMap == [k \in {} |-> Null]

resolveTitle(title, map) == MapGet(map, normalizeTitle(title))

\* the callback with the alias segment left out of the rewritten token
ReplacementDroppingAlias(s, m, sourcePath, newTitle, titleMap) ==
  IF resolveTitle(m.target, titleMap) # sourcePath
    THEN SubSeq(s, m.start, m.next - 1)
    ELSE m.embed \o <<"[", "[">> \o newTitle \o <<"]", "]">>

\* the callback without its test of what the target resolves to
ReplacementOfEveryLink(s, m, sourcePath, newTitle, titleMap) ==
  m.embed \o <<"[", "[">> \o newTitle \o m.alias \o <<"]", "]">>

\* the callback of updateWikiLinksInContent on the match m of s
Replacement(s, m, sourcePath, newTitle, titleMap) ==
  IF resolveTitle(m.target, titleMap) # sourcePath
    THEN SubSeq(s, m.start, m.next - 1)
    ELSE m.embed \o <<"[", "[">> \o newTitle \o m.alias \o <<"]", "]">>

\* content.replace(wikiLinkRegex, callback): the text outside the matches is
\* copied, each match is replaced by what the callback returns
RECURSIVE ReplaceWikiLinks(_, _, _, _, _)
ReplaceFrom(s, i, m, sourcePath, newTitle, titleMap) ==
  IF m.ok
    THEN Replacement(s, m, sourcePath, newTitle, titleMap)
           \o ReplaceWikiLinks(s, m.next, sourcePath, newTitle, titleMap)
    ELSE <<s[i]>> \o ReplaceWikiLinks(s, i + 1, sourcePath, newTitle, titleMap)

ReplaceWikiLinks(s, i, sourcePath, newTitle, titleMap) ==
  IF i > Len(s) THEN <<>>
  ELSE ReplaceFrom(s, i, WikiMatchAt(s, i), sourcePath, newTitle, titleMap)

updateWikiLinksInContent(content, sourcePath, newTitle, titleMap) ==
  ReplaceWikiLinks(content, 1, sourcePath, newTitle, titleMap)

(***************************************************************************)
(* Ordering of strings                                                     *)
(***************************************************************************)
\* UTF-16 code units of the characters the model uses (Array.prototype.sort)
OtherCodeUnits ==
  ("\t" :> 9) @@ ("\n" :> 10) @@ ("\r" :> 13) @@ (" " :> 32) @@ ("!" :> 33) @@ ("#" :> 35)
  @@ ("-" :> 45) @@ ("." :> 46) @@ ("/" :> 47) @@ ("[" :> 91) @@ ("]" :> 93) @@ ("_" :> 95)
  @@ (Backtick :> 96) @@ ("|" :> 124) @@ ("~" :> 126)
  @@ [d \in DigitChars |-> 48 + (CHOOSE n \in 0..9 : ToString(n) = d)]

CodeUnit(c) ==
  IF c \in UpperSet THEN 64 + LetterIndex[c]
  ELSE IF c \in LowerSet THEN 96 + LetterIndex[c]
  ELSE OtherCodeUnits[c]

\* a < b by code units
RECURSIVE CodeUnitLess(_, _)
CodeUnitLess(a, b) ==
  IF b = <<>> THEN FALSE
  ELSE IF a = <<>> THEN TRUE
  ELSE IF CodeUnit(Head(a)) # CodeUnit(Head(b)) THEN CodeUnit(Head(a)) < CodeUnit(Head(b))
  ELSE CodeUnitLess(Tail(a), Tail(b))

\* primary collation weight of localeCompare: white space and punctuation
\* before digits before letters, letters without regard to case
PrimaryWeight(c) ==
  IF IsAlnum(c) THEN 1000 + CodeUnit(ToLowerChar(c)) ELSE CodeUnit(c)

\* the sign of the difference of two weights
WeightOrder(x, y) == IF x < y THEN -1 ELSE IF x > y THEN 1 ELSE 0

\* primary level, from character i on
RECURSIVE PrimaryCompare(_, _, _)
PrimaryCompare(a, b, i) ==
  IF i > Len(a) /\ i > Len(b) THEN 0
  ELSE IF i > Len(a) THEN -1
  ELSE IF i > Len(b) THEN 1
  ELSE IF a[i] = b[i] THEN PrimaryCompare(a, b, i + 1)
  ELSE IF WeightOrder(PrimaryWeight(a[i]), PrimaryWeight(b[i])) # 0
         THEN WeightOrder(PrimaryWeight(a[i]), PrimaryWeight(b[i]))
  ELSE PrimaryCompare(a, b, i + 1)

\* tertiary level: at the first difference of case, lower case first
RECURSIVE CaseCompare(_, _, _)
CaseCompare(a, b, i) ==
  IF i > Len(a) \/ i > Len(b) THEN 0
  ELSE IF a[i] # b[i] THEN (IF IsUpper(b[i]) THEN -1 ELSE 1)
  ELSE CaseCompare(a, b, i + 1)

\* the tertiary level decides when the primary level is a tie
TieBreak(primary, a, b) == IF primary # 0 THEN primary ELSE CaseCompare(a, b, 1)

\* a.localeCompare(b)
localeCompare(a, b) == IF a = b THEN 0 ELSE TieBreak(PrimaryCompare(a, b, 1), a, b)

\* the elements of a sequence without repetition, first occurrences kept
RECURSIVE Dedup(_)
Dedup(s) ==
  IF s = <<>> THEN <<>>
  ELSE LET r == Dedup(SubSeq(s, 1, Len(s) - 1))
       IN IF s[Len(s)] \in Range(r) THEN r ELSE Append(r, s[Len(s)])

\* array.sort((a, b) => a.localeCompare(b)) on an array without repetition
RECURSIVE SortLocale(_)
SortLocale(s) ==
  IF s = <<>> THEN <<>>
  ELSE LET least == CHOOSE x \in Range(s) : \A y \in Range(s) : localeCompare(x, y) <= 0
       IN <<least>> \o SortLocale(SelectSeq(s, LAMBDA y : y # least))

\* Array.from(set).sort() on strings
RECURSIVE SortCodeUnits(_)
SortCodeUnits(s) ==
  IF s = <<>> THEN <<>>
  ELSE LET least == CHOOSE x \in Range(s) : \A y \in Range(s) : x = y \/ CodeUnitLess(x, y)
       IN <<least>> \o SortCodeUnits(SelectSeq(s, LAMBDA y : y # least))

(***************************************************************************)
(* Tags: stripCodeFences, tagRegex, parseTags                              *)
(***************************************************************************)
\* content.split(/\r?\n/)
RECURSIVE SplitLines(_, _, _)
SplitLines(s, from, i) ==
  IF i > Len(s) THEN <<SubSeq(s, from, Len(s))>>
  ELSE IF s[i] # "\n" THEN SplitLines(s, from, i + 1)
  ELSE <<SubSeq(s, from, IF i > from /\ s[i - 1] = "\r" THEN i - 2 ELSE i - 1)>>
         \o SplitLines(s, i + 1, i + 1)

\* IsFence without the trimStart
IsFenceUntrimmed(line) ==
  \/ startsWith(line, <<Backtick, Backtick, Backtick>>)
  \/ startsWith(line, <<"~", "~", "~">>)

IsFence(line) ==
  \/ startsWith(trimStart(line), <<Backtick, Backtick, Backtick>>)
  \/ startsWith(trimStart(line), <<"~", "~", "~">>)

\* the loop of stripCodeFences over lines[i..], entered with the flag inCodeBlock
RECURSIVE FilterFences(_, _, _)
FilterFences(lines, i, inCodeBlock) ==
  IF i > Len(lines) THEN <<>>
  ELSE IF IsFence(lines[i]) THEN FilterFences(lines, i + 1, ~inCodeBlock)
  ELSE IF ~inCodeBlock THEN <<lines[i]>> \o FilterFences(lines, i + 1, inCodeBlock)
  ELSE FilterFences(lines, i + 1, inCodeBlock)

stripCodeFences(content) == FilterFences(SplitLines(content, 1, 1), 1, FALSE)

\* [A-Za-z0-9/_-]
IsTagChar(c) == IsAlnum(c) \/ c \in {"/", "_", "-"}

RECURSIVE TagRunEnd(_, _)
TagRunEnd(s, i) == IF i <= Len(s) /\ IsTagChar(s[i]) THEN TagRunEnd(s, i + 1) ELSE i

\* "#([A-Za-z0-9][A-Za-z0-9/_-]*)" at h
TagBodyAt(s, h) ==
  IF h + 1 <= Len(s) /\ s[h] = "#" /\ IsAlnum(s[h + 1])
    THEN [ok |-> TRUE, from |-> h + 1, next |-> TagRunEnd(s, h + 1)]
    ELSE NoMatch

\* tagRegex /(^|[^A-Za-z0-9/_-])#([A-Za-z0-9][A-Za-z0-9/_-]*)/g at i: "^" is
\* tried first and matches at the start of the line only
TagMatchAt(s, i) ==
  IF i = 1 /\ Len(s) > 1 /\ s[1] = "#" /\ IsAlnum(s[2]) THEN TagBodyAt(s, 1)
  ELSE IF i + 1 <= Len(s) /\ s[i + 1] = "#" /\ ~IsTagChar(s[i]) THEN TagBodyAt(s, i + 1)
  ELSE NoMatch

\* the exec loop over one line, from lastIndex i
RECURSIVE LineTags(_, _)
LineTagsFrom(s, i, m) ==
  IF m.ok THEN <<toLowerCase(SubSeq(s, m.from, m.next - 1))>> \o LineTags(s, m.next)
          ELSE LineTags(s, i + 1)

LineTags(s, i) == IF i > Len(s) THEN <<>> ELSE LineTagsFrom(s, i, TagMatchAt(s, i))

RECURSIVE AllLineTags(_, _)
AllLineTags(lines, i) ==
  IF i > Len(lines) THEN <<>> ELSE LineTags(lines[i], 1) \o AllLineTags(lines, i + 1)

parseTags(content) == SortCodeUnits(Dedup(AllLineTags(stripCodeFences(content), 1)))

(***************************************************************************)
(* Paths (POSIX form, absolute and normalised)                             *)
(***************************************************************************)
\* the last index of character c in s, 0 when there is none
RECURSIVE LastIndexFrom(_, _, _)
LastIndexFrom(s, c, i) == IF i = 0 \/ s[i] = c THEN i ELSE LastIndexFrom(s, c, i - 1)

LastIndexOf(s, c) == LastIndexFrom(s, c, Len(s))

endsWith(s, p) == Len(s) >= Len(p) /\ SubSeq(s, Len(s) - Len(p) + 1, Len(s)) = p

\* path.basename(p)
basename(p) == SubSeq(p, LastIndexOf(p, "/") + 1, Len(p))

\* path.extname(p): from the last "." of the base name, unless that is its first character
BaseExt(b, k) == IF k <= 1 THEN <<>> ELSE SubSeq(b, k, Len(b))

extname(p) == BaseExt(basename(p), LastIndexOf(basename(p), "."))

\* the base name b without the extension that starts at k
BaseTitle(b, k) == IF k <= 1 THEN b ELSE SubSeq(b, 1, k - 1)

BaseTitleOf(b) == BaseTitle(b, LastIndexOf(b, "."))

\* path.basename(filePath, path.extname(filePath))
noteTitleFromPath(filePath) == BaseTitleOf(basename(filePath))

isMarkdownFile(filePath) == endsWith(toLowerCase(filePath), <<".", "m", "d">>)

\* path.relative(from, to) for a path below the directory from
relative(from, to) ==
  IF startsWith(to, from \o <<"/">>) THEN SubSeq(to, Len(from) + 2, Len(to)) ELSE to

(***************************************************************************)
(* The file system: a map from the names of the existing files to their    *)
(* content; names are looked up without regard to case when ci             *)
(***************************************************************************)
DiskKey(d, ci, p) ==
  IF p \in DOMAIN d THEN p
  ELSE IF ci /\ \E k \in DOMAIN d : toLowerCase(k) = toLowerCase(p)
         THEN CHOOSE k \in DOMAIN d : toLowerCase(k) = toLowerCase(p)
  ELSE Null

\* existsSync(p)
existsSync(d, ci, p) == DiskKey(d, ci, p) # Null

\* fs.readFile(p): defined when the file exists
readFile(d, ci, p) == d[DiskKey(d, ci, p)]

\* fs.writeFile(p, content): an existing file keeps its name
writeFile(d, ci, p, content) ==
  MapSet(d, IF existsSync(d, ci, p) THEN DiskKey(d, ci, p) ELSE p, content)

\* fs.rename(from, to) of an existing file: the entry at to, if any, is replaced
fsRename(d, ci, from, to) ==
  LET content == readFile(d, ci, from)
      gone == MapDelete(d, DiskKey(d, ci, from))
      freed == IF existsSync(gone, ci, to) THEN MapDelete(gone, DiskKey(gone, ci, to)) ELSE gone
  IN MapSet(freed, to, content)

\* fs.rm(p, {force: true})
fsRm(d, ci, p) == IF existsSync(d, ci, p) THEN MapDelete(d, DiskKey(d, ci, p)) ELSE d

(***************************************************************************)
(* VaultIndex.  notes is the Map of the source as the sequence of its      *)
(* entries in insertion order; titleToPath, backlinks and tagIndex are     *)
(* functions on their keys, a Set value being the sequence of its members  *)
(* in insertion order.  An index is the record of the four, with the       *)
(* history of the registry beside them: inserted lists the registered      *)
(* paths by their latest insertion, the earliest first.                    *)
(***************************************************************************)
\* the position of the entry of filePath in notes, 0 when there is none
NoteAt(ns, filePath) ==
  IF \E i \in DOMAIN ns : ns[i].path = filePath
    THEN CHOOSE i \in DOMAIN ns : ns[i].path = filePath
    ELSE 0

NotePaths(ns) == {ns[i].path : i \in DOMAIN ns}

\* Map.prototype.set: an existing key keeps its place
NotesSet(ns, entry) ==
  IF NoteAt(ns, entry.path) # 0
    THEN [ns EXCEPT ![NoteAt(ns, entry.path)] = entry]
    ELSE Append(ns, entry)

NotesDelete(ns, filePath) == SelectSeq(ns, LAMBDA e : e.path # filePath)

\* map.get(key).add(member), the Set created when the key is new
AddToSet(map, key, member) ==
  LET old == MapGet(map, key)
  IN MapSet(map, key, IF member \in Range(old) THEN old ELSE Append(old, member))

\* the loops of rebuildBacklinks from link j of entry i, bl built so far
\* (the test on bl is never true: it has bl evaluated before the next step)
RECURSIVE BacklinkLoop(_, _, _, _, _)
BacklinkLoop(ns, t2p, i, j, bl) ==
  IF i > Len(ns) \/ Cardinality(DOMAIN bl) < 0 THEN bl
  ELSE IF j > Len(ns[i].links) THEN BacklinkLoop(ns, t2p, i + 1, 1, bl)
  ELSE LET targetPath == MapGet(t2p, ns[i].links[j])
       IN IF targetPath = Null
            THEN BacklinkLoop(ns, t2p, i, j + 1, bl)
            ELSE BacklinkLoop(ns, t2p, i, j + 1, AddToSet(bl, targetPath, ns[i].path))

rebuildBacklinks(ns, t2p) == BacklinkLoop(ns, t2p, 1, 1, EmptyMap)

\* the loops of rebuildTagIndex from tag j of entry i, ti built so far
\* (the test on ti is never true: it has ti evaluated before the next step)
RECURSIVE TagLoop(_, _, _, _)
TagLoop(ns, i, j, ti) ==
  IF i > Len(ns) \/ Cardinality(DOMAIN ti) < 0 THEN ti
  ELSE IF j > Len(ns[i].tags) THEN TagLoop(ns, i + 1, 1, ti)
  ELSE TagLoop(ns, i, j + 1, AddToSet(ti, ns[i].tags[j], ns[i].path))

rebuildTagIndex(ns) == TagLoop(ns, 1, 1, EmptyMap)

rebuildDerivedIndexes(ix) ==
  [ix EXCEPT !.backlinks = rebuildBacklinks(ix.notes, ix.titleToPath),
             !.tagIndex = rebuildTagIndex(ix.notes)]

\* the entries of the tag index as { tag, count }
SummaryEntries(ti) == {[tag |-> t, count |-> Len(ti[t])] : t \in DOMAIN ti}

\* (a, b) => b.count - a.count || a.tag.localeCompare(b.tag)
compareSummary(a, b) ==
  IF b.count - a.count # 0 THEN b.count - a.count ELSE localeCompare(a.tag, b.tag)

\* sort with compareSummary, which is 0 for no two entries of a map
RECURSIVE SortSummary(_)
SortSummary(entries) ==
  IF entries = {} THEN <<>>
  ELSE LET first == CHOOSE x \in entries : \A y \in entries : compareSummary(x, y) <= 0
       IN <<first>> \o SortSummary(entries \ {first})

getTagSummary(ti) == SortSummary(SummaryEntries(ti))

EmptyIndex ==
  [notes |-> <<>>, titleToPath |-> EmptyMap, backlinks |-> EmptyMap, tagIndex |-> EmptyMap,
   inserted |-> <<>>]

\* the history once filePath is inserted, and once it is deleted
Forget(history, filePath) == SelectSeq(history, LAMBDA q : q # filePath)

Remember(history, filePath) == Append(Forget(history, filePath), filePath)

\* indexFile returns at once without a vault or for a file that is no note
IndexFileSkips(vault, filePath) == vault = Null \/ ~isMarkdownFile(filePath)

\* indexFile adding the links of content to those of the entry it replaces
indexFileMergingLinks(ix, vault, filePath, content, updateTitleMap) ==
  IF IndexFileSkips(vault, filePath) THEN ix
  ELSE
    LET title == noteTitleFromPath(filePath)
        normalizedTitle == normalizeTitle(title)
        at == NoteAt(ix.notes, filePath)
        t2p == IF updateTitleMap /\ at # 0
                 THEN MapDelete(ix.titleToPath, ix.notes[at].lowerTitle)
                 ELSE ix.titleToPath
        entry == [path |-> filePath, title |-> title, content |-> content,
                  links |-> (IF at # 0 THEN ix.notes[at].links ELSE <<>>)
                              \o parseWikiLinks(content),
                  tags |-> parseTags(content),
                  lowerTitle |-> normalizedTitle,
                  lowerPath |-> toLowerCase(relative(vault, filePath))]
    IN [ix EXCEPT !.notes = NotesSet(ix.notes, entry),
                  !.titleToPath = MapSet(t2p, normalizedTitle, filePath),
                  !.inserted = Remember(ix.inserted, filePath)]

\* indexFile after its read of content has succeeded
indexFile(ix, vault, filePath, content, updateTitleMap) ==
  IF IndexFileSkips(vault, filePath) THEN ix
  ELSE
    LET title == noteTitleFromPath(filePath)
        normalizedTitle == normalizeTitle(title)
        at == NoteAt(ix.notes, filePath)
        t2p == IF updateTitleMap /\ at # 0
                 THEN MapDelete(ix.titleToPath, ix.notes[at].lowerTitle)
                 ELSE ix.titleToPath
        entry == [path |-> filePath, title |-> title, content |-> content,
                  links |-> parseWikiLinks(content), tags |-> parseTags(content),
                  lowerTitle |-> normalizedTitle,
                  lowerPath |-> toLowerCase(relative(vault, filePath))]
    IN [ix EXCEPT !.notes = NotesSet(ix.notes, entry),
                  !.titleToPath = MapSet(t2p, normalizedTitle, filePath),
                  !.inserted = Remember(ix.inserted, filePath)]

\* removeFile without the rebuild of the derived indexes
removeFileWithoutRebuild(ix, filePath) ==
  LET at == NoteAt(ix.notes, filePath)
  IN IF at = 0 THEN ix
     ELSE [ix EXCEPT !.notes = NotesDelete(ix.notes, filePath),
                     !.titleToPath = MapDelete(ix.titleToPath, ix.notes[at].lowerTitle),
                     !.inserted = Forget(ix.inserted, filePath)]

\* removeFile without its titleToPath.delete
removeFileKeepingTitle(ix, filePath) ==
  LET at == NoteAt(ix.notes, filePath)
  IN IF at = 0 THEN ix
     ELSE rebuildDerivedIndexes(
            [ix EXCEPT !.notes = NotesDelete(ix.notes, filePath),
                       !.inserted = Forget(ix.inserted, filePath)])

removeFile(ix, filePath) ==
  LET at == NoteAt(ix.notes, filePath)
  IN IF at = 0 THEN ix
     ELSE rebuildDerivedIndexes(
            [ix EXCEPT !.notes = NotesDelete(ix.notes, filePath),
                       !.titleToPath = MapDelete(ix.titleToPath, ix.notes[at].lowerTitle),
                       !.inserted = Forget(ix.inserted, filePath)])

\* getAllMarkdownFiles(vault): the notes below the vault directory
getAllMarkdownFiles(d, vault) ==
  {f \in DOMAIN d : startsWith(f, vault \o <<"/">>) /\ isMarkdownFile(f)}

\* the inserts of build, made in the order in which the reads complete
\* (the test on ix is never true: it has ix evaluated before the next step)
RECURSIVE BuildInserts(_, _, _, _, _, _)
BuildInserts(ix, d, ci, vault, order, i) ==
  IF i > Len(order) \/ Len(ix.notes) > Len(order) THEN ix
  ELSE BuildInserts(indexFile(ix, vault, order[i], readFile(d, ci, order[i]), FALSE),
                    d, ci, vault, order, i + 1)

build(d, ci, vault, order) ==
  rebuildDerivedIndexes(BuildInserts(EmptyIndex, d, ci, vault, order, 1))

\* the orders in which the files of a set can be taken
Orders(S) ==
  {o \in [1..Cardinality(S) -> S] : \A i, j \in 1..Cardinality(S) : o[i] = o[j] => i = j}

getBacklinks(bl, filePath) == MapGet(bl, filePath)

\* getAffectedFilesForRename without its sort
getAffectedFilesUnsorted(bl, sourcePath) == MapGet(bl, sourcePath)

getAffectedFilesForRename(bl, sourcePath) == SortLocale(MapGet(bl, sourcePath))

openByTitle(t2p, title) == MapGet(t2p, normalizeTitle(title))

noteExists(t2p, title) == normalizeTitle(title) \in DOMAIN t2p

\* addNode: nodes.set(pathValue, { path, title }), an existing key keeps its
\* place
addNode(ns, nodes, pathValue) ==
  LET node == [path |-> pathValue,
               title |-> IF NoteAt(ns, pathValue) # 0
                           THEN ns[NoteAt(ns, pathValue)].title
                           ELSE noteTitleFromPath(pathValue)]
  IN IF \E k \in DOMAIN nodes : nodes[k].path = pathValue
       THEN [k \in DOMAIN nodes |-> IF nodes[k].path = pathValue THEN node ELSE nodes[k]]
       ELSE Append(nodes, node)

Edge(from, to) == [from |-> from, to |-> to]

\* the loop over entry.links with a link that resolves to no note given an
\* edge all the same
RECURSIVE OutgoingLoopKeepingAll(_, _, _, _, _)
OutgoingLoopKeepingAll(ix, filePath, links, i, graph) ==
  IF i > Len(links) THEN graph
  ELSE LET targetPath == MapGet(ix.titleToPath, links[i])
       IN OutgoingLoopKeepingAll(ix, filePath, links, i + 1,
            [nodes |-> IF targetPath = Null THEN graph.nodes
                       ELSE addNode(ix.notes, graph.nodes, targetPath),
             edges |-> Append(graph.edges, Edge(filePath, targetPath))])

\* the loop over entry.links, from link i
RECURSIVE OutgoingLoop(_, _, _, _, _)
OutgoingLoop(ix, filePath, links, i, graph) ==
  IF i > Len(links) THEN graph
  ELSE LET targetPath == MapGet(ix.titleToPath, links[i])
       IN IF targetPath = Null
            THEN OutgoingLoop(ix, filePath, links, i + 1, graph)
            ELSE OutgoingLoop(ix, filePath, links, i + 1,
                   [nodes |-> addNode(ix.notes, graph.nodes, targetPath),
                    edges |-> Append(graph.edges, Edge(filePath, targetPath))])

\* the loop over this.backlinks.get(filePath), from source i
RECURSIVE IncomingLoop(_, _, _, _, _)
IncomingLoop(ix, filePath, incoming, i, graph) ==
  IF i > Len(incoming) THEN graph
  ELSE IncomingLoop(ix, filePath, incoming, i + 1,
         [nodes |-> addNode(ix.notes, graph.nodes, incoming[i]),
          edges |-> Append(graph.edges, Edge(incoming[i], filePath))])

getLocalGraph(ix, filePath) ==
  IF NoteAt(ix.notes, filePath) = 0 THEN [nodes |-> <<>>, edges |-> <<>>]
  ELSE IncomingLoop(ix, filePath, MapGet(ix.backlinks, filePath), 1,
         OutgoingLoop(ix, filePath, ix.notes[NoteAt(ix.notes, filePath)].links, 1,
           [nodes |-> addNode(ix.notes, <<>>, filePath), edges |-> <<>>]))

\* the title getNotesForTag sorts a path by
TagTitle(ns, p) == IF NoteAt(ns, p) # 0 THEN ns[NoteAt(ns, p)].title ELSE noteTitleFromPath(p)

\* the stable sort of getNotesForTag, by insertion: path p goes after the
\* paths sorted so far whose title is not after its own
InsertByTitle(ns, sorted, p) ==
  LET before == {k \in DOMAIN sorted :
                   \A j \in 1..k : localeCompare(TagTitle(ns, sorted[j]), TagTitle(ns, p)) <= 0}
      n == Cardinality(before)
  IN SubSeq(sorted, 1, n) \o <<p>> \o SubSeq(sorted, n + 1, Len(sorted))

RECURSIVE SortPathsByTitle(_, _, _, _)
SortPathsByTitle(ns, paths, i, sorted) ==
  IF i > Len(paths) THEN sorted
  ELSE SortPathsByTitle(ns, paths, i + 1, InsertByTitle(ns, sorted, paths[i]))

(***************************************************************************)
(* The fuzzy matcher.  A score is the ratio num / den of two naturals.     *)
(* String positions count from 1, so 0 stands for the -1 of indexOf and    *)
(* for the initial lastMatch.                                              *)
(***************************************************************************)
Ratio(num, den) == [num |-> num, den |-> den]

Positive(r) == r.num > 0

\* String.prototype.indexOf(c, from) for a single character
indexOf(s, c, from) ==
  IF \E k \in from..Len(s) : s[k] = c
    THEN CHOOSE k \in from..Len(s) : s[k] = c /\ \A j \in from..(k - 1) : s[j] # c
    ELSE 0

\* the loop of fuzzyScore from character i of query: the points, 0 once a
\* character is not found
RECURSIVE ScoreLoop(_, _, _, _, _)
ScoreLoop(query, target, i, lastMatch, score) ==
  IF i > Len(query) THEN score
  ELSE IF indexOf(target, query[i], lastMatch + 1) = 0 THEN 0
  ELSE ScoreLoop(query, target, i + 1, indexOf(target, query[i], lastMatch + 1),
                 score + (IF indexOf(target, query[i], lastMatch + 1) = lastMatch + 1
                            THEN 2 ELSE 1))

\* fuzzyScore searching every character from the start of target
fuzzyScoreFromStart(query, target) ==
  IF query = <<>> \/ \E i \in DOMAIN query : indexOf(target, query[i], 1) = 0
    THEN Ratio(0, 1)
    ELSE Ratio(Len(query), IF Len(target) > 1 THEN Len(target) ELSE 1)

\* fuzzyScore of the main process
fuzzyScore(query, target) ==
  IF query = <<>> THEN Ratio(0, 1)
  ELSE Ratio(ScoreLoop(query, target, 1, 0, 0), IF Len(target) > 1 THEN Len(target) ELSE 1)

\* fuzzyScore of the command palette
fuzzyScorePalette(query, target) ==
  IF trim(toLowerCase(query)) = <<>> THEN Ratio(1, 1)
  ELSE IF ScoreLoop(trim(toLowerCase(query)), toLowerCase(target), 1, 0, 0) = 0 THEN Ratio(0, 1)
  ELSE Ratio(ScoreLoop(trim(toLowerCase(query)), toLowerCase(target), 1, 0, 0), Len(target))

(***************************************************************************)
(* Quick switch: searchNotes.  Array.prototype.sort is stable, so the      *)
(* sorted array is the one a stable insertion sort gives.                  *)
(***************************************************************************)
\* the number of results search and searchNotes cut their lists to
ResultLimit == 50

\* the sign of a - b for two scores
RatioCompare(a, b) == WeightOrder(a.num * b.den, b.num * a.den)

\* Math.max of two scores
RatioMax(a, b) == IF RatioCompare(a, b) >= 0 THEN a ELSE b

\* one item of the array scored
ScoredItem(entry, normalized) ==
  [entry |-> entry,
   titleScore |-> fuzzyScore(normalized, entry.lowerTitle),
   pathScore |-> fuzzyScore(normalized, entry.lowerPath),
   score |-> RatioMax(fuzzyScore(normalized, entry.lowerTitle),
                      fuzzyScore(normalized, entry.lowerPath))]

\* the comparator ordering by the reported score alone
compareByScore(a, b) ==
  IF Positive(a.titleScore) # Positive(b.titleScore)
    THEN (IF Positive(a.titleScore) THEN -1 ELSE 1)
  ELSE IF RatioCompare(a.score, b.score) # 0 THEN RatioCompare(b.score, a.score)
  ELSE localeCompare(a.entry.title, b.entry.title)

\* the comparator ordering by score without the tiers
compareWithoutTiers(a, b) ==
  IF RatioCompare(a.score, b.score) # 0 THEN RatioCompare(b.score, a.score)
  ELSE localeCompare(a.entry.title, b.entry.title)

\* the comparator putting the lower title score first
compareWeakestTitleFirst(a, b) ==
  IF Positive(a.titleScore) # Positive(b.titleScore)
    THEN (IF Positive(a.titleScore) THEN -1 ELSE 1)
  ELSE IF Positive(a.titleScore) /\ Positive(b.titleScore)
          /\ RatioCompare(a.titleScore, b.titleScore) # 0
    THEN RatioCompare(a.titleScore, b.titleScore)
  ELSE IF RatioCompare(a.pathScore, b.pathScore) # 0
    THEN RatioCompare(b.pathScore, a.pathScore)
  ELSE localeCompare(a.entry.title, b.entry.title)

\* the comparator of scored.sort: its sign
compareScored(a, b) ==
  IF Positive(a.titleScore) # Positive(b.titleScore)
    THEN (IF Positive(a.titleScore) THEN -1 ELSE 1)
  ELSE IF Positive(a.titleScore) /\ Positive(b.titleScore)
          /\ RatioCompare(a.titleScore, b.titleScore) # 0
    THEN RatioCompare(b.titleScore, a.titleScore)
  ELSE IF RatioCompare(a.pathScore, b.pathScore) # 0
    THEN RatioCompare(b.pathScore, a.pathScore)
  ELSE localeCompare(a.entry.title, b.entry.title)

\* item put into the sorted array after the items that do not come after it
InsertScored(sorted, item) ==
  LET before == Cardinality({i \in DOMAIN sorted : compareScored(sorted[i], item) <= 0})
  IN SubSeq(sorted, 1, before) \o <<item>> \o SubSeq(sorted, before + 1, Len(sorted))

\* the items from item i on put into sorted one by one
\* (the test on sorted is never true: it has sorted evaluated before the next step)
RECURSIVE SortLoop(_, _, _)
SortLoop(items, i, sorted) ==
  IF i > Len(items) \/ Len(sorted) > Len(items) THEN sorted
  ELSE SortLoop(items, i + 1, InsertScored(sorted, items[i]))

SortScored(items) == SortLoop(items, 1, <<>>)

\* array.slice(0, limit)
Slice(array, limit) == SubSeq(array, 1, IF Len(array) < limit THEN Len(array) ELSE limit)

QuickResult(item, vault) ==
  [id |-> item.entry.path, title |-> item.entry.title, path |-> item.entry.path,
   displayPath |-> IF vault # Null THEN relative(vault, item.entry.path) ELSE item.entry.path,
   score |-> item.score]

\* searchNotes without the cut to ResultLimit
searchNotesUncut(ns, vault, query) ==
  IF normalizeTitle(query) = <<>> THEN [results |-> <<>>, hasExactMatch |-> FALSE]
  ELSE
    LET scored == SelectSeq([i \in DOMAIN ns |-> ScoredItem(ns[i], normalizeTitle(query))],
                            LAMBDA item : Positive(item.score))
        sorted == SortScored(scored)
    IN [results |-> [i \in DOMAIN sorted |-> QuickResult(sorted[i], vault)],
        hasExactMatch |-> \E i \in DOMAIN ns : ns[i].lowerTitle = normalizeTitle(query)]

searchNotes(ns, vault, query) ==
  IF normalizeTitle(query) = <<>> THEN [results |-> <<>>, hasExactMatch |-> FALSE]
  ELSE
    LET scored == SelectSeq([i \in DOMAIN ns |-> ScoredItem(ns[i], normalizeTitle(query))],
                            LAMBDA item : Positive(item.score))
        sorted == Slice(SortScored(scored), ResultLimit)
    IN [results |-> [i \in DOMAIN sorted |-> QuickResult(sorted[i], vault)],
        hasExactMatch |-> \E i \in DOMAIN ns : ns[i].lowerTitle = normalizeTitle(query)]

(***************************************************************************)
(* Search: parseTagQuery and VaultIndex.search.  The search index is the   *)
(* MiniSearch library over the title and the content of the notes; what it *)
(* returns for a text is modelled by the notes one of whose terms starts   *)
(* with a term of the text (prefix: true), in the order of the registry.   *)
(* Its fuzzy matches and its relevance order are not modelled.             *)
(***************************************************************************)
\* the white space of /\s/
SpaceChars == {" ", "\n", "\r", "\t"}

\* the places where a run of characters that are not separators starts
WordStarts(s, separators) ==
  {i \in DOMAIN s : s[i] \notin separators /\ (i = 1 \/ s[i - 1] \in separators)}

\* the run that starts at i
WordAt(s, i, separators) ==
  SubSeq(s, i, (CHOOSE k \in i..Len(s) :
                  /\ \A j \in i..k : s[j] \notin separators
                  /\ (k = Len(s) \/ s[k + 1] \in separators)))

\* query.trim().split(/\s+/).filter(Boolean): the k-th token
RECURSIVE NthStart(_, _)
NthStart(starts, k) ==
  IF k = 1 THEN CHOOSE i \in starts : \A j \in starts : i <= j
  ELSE NthStart(starts \ {CHOOSE i \in starts : \A j \in starts : i <= j}, k - 1)

QueryTokens(s) ==
  [k \in 1..Cardinality(WordStarts(s, SpaceChars)) |->
     WordAt(s, NthStart(WordStarts(s, SpaceChars), k), SpaceChars)]

\* tag.replace(/^#/, '').toLowerCase()
normalizeTag(tag) ==
  toLowerCase(IF tag # <<>> /\ tag[1] = "#" THEN SubSeq(tag, 2, Len(tag)) ELSE tag)

getNotesForTag(ix, tag) ==
  IF normalizeTag(tag) \notin DOMAIN ix.tagIndex THEN <<>>
  ELSE SortPathsByTitle(ix.notes, ix.tagIndex[normalizeTag(tag)], 1, <<>>)

TagPrefix == <<"t", "a", "g", ":">>

IsTagToken(token) == startsWith(toLowerCase(token), TagPrefix)

\* array.join(' ')
RECURSIVE JoinWords(_)
JoinWords(words) ==
  IF words = <<>> THEN <<>>
  ELSE IF Len(words) = 1 THEN words[1]
  ELSE words[1] \o <<" ">> \o JoinWords(Tail(words))

parseTagQuery(query) ==
  LET tagTokens == SelectSeq(QueryTokens(query), IsTagToken)
      values == [k \in DOMAIN tagTokens |-> normalizeTag(SubSeq(tagTokens[k], 5, Len(tagTokens[k])))]
  IN [tagFilters |-> SelectSeq(values, LAMBDA value : value # <<>>),
      textQuery |-> JoinWords(SelectSeq(QueryTokens(query), LAMBDA token : ~IsTagToken(token)))]

\* the characters the tokenizer of the search index splits a text at
TermSeparators == SpaceChars \cup {"!", "#", "-", ".", "/", ":", "[", "]", "_"}

\* the terms of a text, lowercased
Terms(text) ==
  {toLowerCase(WordAt(text, i, TermSeparators)) : i \in WordStarts(text, TermSeparators)}

\* searchIndex.search(text, { prefix: true, fuzzy: 0.2 })
searchIndexSearch(docs, text) ==
  LET hits == SelectSeq(docs, LAMBDA doc :
                \E term \in Terms(text), word \in Terms(doc.title) \cup Terms(doc.content) :
                  startsWith(word, term))
  IN [k \in DOMAIN hits |-> [id |-> hits[k].path, title |-> hits[k].title, path |-> hits[k].path]]

\* entries.sort((a, b) => a.title.localeCompare(b.title)), a stable sort
SortByTitle(entries) ==
  [r \in DOMAIN entries |->
     entries[CHOOSE i \in DOMAIN entries :
               Cardinality({j \in DOMAIN entries :
                              \/ localeCompare(entries[j].title, entries[i].title) < 0
                              \/ (localeCompare(entries[j].title, entries[i].title) = 0 /\ j < i)})
                 = r - 1]]

\* search returning the text hits whatever their tags
searchWithoutTagFilter(ns, query) ==
  IF trim(query) = <<>> THEN <<>>
  ELSE IF parseTagQuery(query).tagFilters = <<>>
    THEN Slice(searchIndexSearch(ns, query), ResultLimit)
  ELSE Slice(searchIndexSearch(ns, parseTagQuery(query).textQuery), ResultLimit)

\* VaultIndex.search, the search index holding the notes ns
search(ns, query) ==
  IF trim(query) = <<>> THEN <<>>
  ELSE IF parseTagQuery(query).tagFilters = <<>>
    THEN Slice(searchIndexSearch(ns, query), ResultLimit)
  ELSE
    LET tagFilters == parseTagQuery(query).tagFilters
        textQuery == parseTagQuery(query).textQuery
        matchingEntries == SelectSeq(ns, LAMBDA entry :
                             \A k \in DOMAIN tagFilters : tagFilters[k] \in Range(entry.tags))
        sorted == Slice(SortByTitle(matchingEntries), ResultLimit)
    IN IF trim(textQuery) = <<>>
         THEN [k \in DOMAIN sorted |->
                 [id |-> sorted[k].path, title |-> sorted[k].title, path |-> sorted[k].path,
                  score |-> 1]]
         ELSE Slice(SelectSeq(searchIndexSearch(ns, textQuery),
                              LAMBDA result : result.id \in NotePaths(matchingEntries)),
                    ResultLimit)

(***************************************************************************)
(* Bounds and the inputs the operations are called with                    *)
(***************************************************************************)
\* operations in one run
MaxSteps == 3

\* the I/O calls of one applyRename a fault can be injected into
MaxFaultPos == 5

Root == <<"/", "v">>

PathA == Root \o <<"/", "a", ".", "m", "d">>
PathB == Root \o <<"/", "b", ".", "m", "d">>
PathUpperA == Root \o <<"/", "A", ".", "m", "d">>
PathSubA == Root \o <<"/", "y", "/", "a", ".", "m", "d">>
PathImg == Root \o <<"/", "i", ".", "p", "n", "g">>

NotePathsUsed == {PathA, PathB, PathUpperA, PathSubA}

\* "#t [[a]]"
TextTagged == <<"#", "t", " ", "[", "[", "a", "]", "]">>

\* "#t [[b]]"
TextDangling == <<"#", "t", " ", "[", "[", "b", "]", "]">>

\* "![[a|n]] [[a]]"
TextEmbedAlias ==
  <<"!", "[", "[", "a", "|", "n", "]", "]", " ", "[", "[", "a", "]", "]">>

\* "[[b]]-[[ a ]]"
TextSpaced ==
  <<"[", "[", "b", "]", "]", "-", "[", "[", " ", "a", " ", "]", "]">>

\* "[[A|n]] [[b]]"
TextUpper ==
  <<"[", "[", "A", "|", "n", "]", "]", " ", "[", "[", "b", "]", "]">>

\* "x"
TextPlain == <<"x">>

\* the queries made of the index the handlers keep:
\*   quick switch "a", ""; search "tag:t a", "x"; tags "t", "#T";
\*   titles "a", " B"
QuickQueriesUsed == { <<"a">>, <<>> }

SearchQueriesUsed == { <<"t", "a", "g", ":", "t", " ", "a">>, <<"x">> }

TagsUsed == { <<"t">>, <<"#", "T">> }

TitlesUsed == { <<"a">>, <<" ", "B">> }

\* a second vault with one note
Root2 == <<"/", "w">>

PathOther == Root2 \o <<"/", "c", ".", "m", "d">>

\* the vaults a run starts from
InitialDisks ==
  { (PathA :> TextDangling) @@ (PathSubA :> TextEmbedAlias),
    (PathA :> TextTagged) @@ (PathB :> TextSpaced) @@ (PathImg :> TextPlain),
    (PathA :> TextUpper) }

\* process.platform and whether the file system ignores case
Hosts ==
  { [platform |-> "linux", ci |-> FALSE],
    [platform |-> "darwin", ci |-> TRUE] }

\* the renames asked for
RenamesUsed ==
  { <<PathA, PathB>>, <<PathB, PathA>>, <<PathA, PathUpperA>>, <<PathA, PathSubA>>,
    <<PathImg, PathB>>, <<PathImg, PathSubA>> }

PreviewsUsed ==
  { <<PathA, PathB>>, <<PathA, PathSubA>>, <<PathImg, PathB>>, <<PathA, PathUpperA>> }

\* the writes made, by the application and by other programs
WritesUsed ==
  { <<PathB, TextSpaced>>, <<PathSubA, TextPlain>>, <<PathUpperA, TextTagged>> }

DeletesUsed == {PathA, PathSubA}

ExternalDeletesUsed == {PathA, PathB}

\* the longest query and the longest target the fuzzy matcher is given
MaxQueryLen == 2

MaxTargetLen == 3

FuzzyChars == {"a", "A", " "}

StringsUpTo(n) == UNION {[1..k -> FuzzyChars] : k \in 0..n}

\* a file of a vault
File(path, content) == [path |-> Root \o path, content |-> content]

\* the vault searched, its files in the order vault:set read them:
\*   ac.md    '#beta roadmap'
\*   ab.md    '#beta x'
\*   y/ab.md  'roadmap'
\*   y/b.md   '```\n#beta roadmap\n```\n#p/q'
\*   B.md     '#Beta #t roadmap'
\*   accy.md  '~~~\n#t'
SearchFiles ==
  << File(<<"/", "a", "c", ".", "m", "d">>,
          <<"#", "b", "e", "t", "a", " ", "r", "o", "a", "d", "m", "a", "p">>),
     File(<<"/", "a", "b", ".", "m", "d">>,
          <<"#", "b", "e", "t", "a", " ", "x">>),
     File(<<"/", "y", "/", "a", "b", ".", "m", "d">>,
          <<"r", "o", "a", "d", "m", "a", "p">>),
     File(<<"/", "y", "/", "b", ".", "m", "d">>,
          <<Backtick, Backtick, Backtick, "\n", "#", "b", "e", "t", "a", " ", "r", "o", "a", "d", "m", "a", "p", "\n", Backtick, Backtick, Backtick, "\n", "#", "p", "/", "q">>),
     File(<<"/", "B", ".", "m", "d">>,
          <<"#", "B", "e", "t", "a", " ", "#", "t", " ", "r", "o", "a", "d", "m", "a", "p">>),
     File(<<"/", "a", "c", "c", "y", ".", "m", "d">>,
          <<"~", "~", "~", "\n", "#", "t">>) >>

\* a vault of more notes than ResultLimit, each of the title m with the
\* content "#t m": a/m.md, b/m.md and so on
BigFiles ==
  [i \in 1..(ResultLimit + 1) |->
     File(<<"/", (LowerChars \o UpperChars)[i], "/", "m", ".", "m", "d">>, <<"#", "t", " ", "m">>)]

Reverse(files) == [i \in DOMAIN files |-> files[Len(files) + 1 - i]]

\* the files as a disk, and the order they are read in
DiskOf(files) ==
  [f \in {files[i].path : i \in DOMAIN files} |->
     files[CHOOSE i \in DOMAIN files : files[i].path = f].content]

OrderOf(files) == [i \in DOMAIN files |-> files[i].path]

\* the vaults searched, each read in two orders
SearchInputs == {SearchFiles, Reverse(SearchFiles), BigFiles, Reverse(BigFiles)}

\* the quick-switch queries: "", " ", "a", "A ", "b", "y", "m", "ab", "cy", "z"
QuickQueries ==
  { <<>>, <<" ">>, <<"a">>, <<"A", " ">>, <<"b">>, <<"y">>, <<"m">>, <<"a", "b">>,
    <<"c", "y">>, <<"z">>, <<"a", "c">>, <<"/">>, <<"m", "m">>, <<"B">> }

\* the search queries:
\*   "tag:beta roadmap"
\*   "tag:#Beta road"
\*   "TAG:t tag:beta roadmap"
\*   "roadmap"
\*   "tag:beta"
\*   "tag: roadmap"
\*   "tag:t m"
\*   "tag:zz roadmap"
\*   " "
\*   "tag:p/q roadmap"
\*   "x tag:beta"
SearchQueries ==
  { <<"t", "a", "g", ":", "b", "e", "t", "a", " ", "r", "o", "a", "d", "m", "a", "p">>,
    <<"t", "a", "g", ":", "#", "B", "e", "t", "a", " ", "r", "o", "a", "d">>,
    <<"T", "A", "G", ":", "t", " ", "t", "a", "g", ":", "b", "e", "t", "a", " ", "r", "o", "a", "d", "m", "a", "p">>,
    <<"r", "o", "a", "d", "m", "a", "p">>,
    <<"t", "a", "g", ":", "b", "e", "t", "a">>,
    <<"t", "a", "g", ":", " ", "r", "o", "a", "d", "m", "a", "p">>,
    <<"t", "a", "g", ":", "t", " ", "m">>,
    <<"t", "a", "g", ":", "z", "z", " ", "r", "o", "a", "d", "m", "a", "p">>,
    <<" ">>,
    <<"t", "a", "g", ":", "p", "/", "q", " ", "r", "o", "a", "d", "m", "a", "p">>,
    <<"x", " ", "t", "a", "g", ":", "b", "e", "t", "a">> }

\* the most lines of a content whose tags are parsed
MaxLines == 3

\* the lines such a content is made of:
\*   "#t", "```", " ~~~x", "x #U", "a#v ``", ""
TagLines ==
  { <<"#", "t">>, <<Backtick, Backtick, Backtick>>, <<" ", "~", "~", "~", "x">>,
    <<"x", " ", "#", "U">>, <<"a", "#", "v", " ", Backtick, Backtick>>, <<>> }

\* the line ends a content is written with
LineEnds == { <<"\n">>, <<"\r", "\n">> }

\* lines.join(eol)
RECURSIVE JoinLines(_, _)
JoinLines(lines, eol) ==
  IF Len(lines) = 1 THEN lines[1]
  ELSE lines[1] \o eol \o JoinLines(Tail(lines), eol)

(***************************************************************************)
(* State                                                                   *)
(***************************************************************************)
VARIABLES
  vaultPath,    \* the vault root, Null before vault:set
  host,         \* the platform of the process and its file system
  disk,         \* the files
  notes,        \* VaultIndex.notes
  titleToPath,  \* VaultIndex.titleToPath
  backlinks,    \* VaultIndex.backlinks
  tagIndex,     \* VaultIndex.tagIndex
  inserted,     \* history: the registered paths by their latest insertion
  last,         \* the last operation: its arguments, the state it was called in, its result
  prev,         \* the operation before it, when that was an applyRename or a prepareRename
  steps,        \* operations so far
  flight        \* the handlers suspended at an await, each with its locals

vars ==
  <<vaultPath, host, disk, notes, titleToPath, backlinks, tagIndex, inserted, last, prev,
    steps, flight>>

Index ==
  [notes |-> notes, titleToPath |-> titleToPath, backlinks |-> backlinks,
   tagIndex |-> tagIndex, inserted |-> inserted]

SetIndex(ix) ==
  /\ notes' = ix.notes
  /\ titleToPath' = ix.titleToPath
  /\ backlinks' = ix.backlinks
  /\ tagIndex' = ix.tagIndex
  /\ inserted' = ix.inserted

NoCall ==
  [op |-> "none", src |-> Null, tgt |-> Null, threw |-> FALSE, ok |-> FALSE,
   error |-> "", updatedFiles |-> <<>>, failedFiles |-> <<>>,
   affectedFiles |-> <<>>, io |-> <<>>, pre |-> Null]

Call(op, src, tgt) == [NoCall EXCEPT !.op = op, !.src = src, !.tgt = tgt]

\* ensureVaultSet throws
VaultNotSet(op) == [NoCall EXCEPT !.op = op, !.threw = TRUE, !.error = "Vault not set"]

\* a handler that is not running
Idle == [pc |-> "idle"]

\* no handler is suspended; the renderer has no note open and no save pending
NoFlight ==
  [rename |-> Idle, update |-> Idle, build |-> Idle, updates |-> <<>>,
   open |-> {}, timers |-> EmptyMap]

\* the state a rename is called in
Pre == [disk |-> disk, ix |-> Index]

Init ==
  /\ vaultPath = Null
  /\ host \in Hosts
  /\ disk \in InitialDisks
  /\ notes = <<>>
  /\ titleToPath = EmptyMap
  /\ backlinks = EmptyMap
  /\ tagIndex = EmptyMap
  /\ inserted = <<>>
  /\ last = NoCall
  /\ prev = NoCall
  /\ steps = 0
  /\ flight = NoFlight

\* the operations of one run are bounded
CanStep == steps < MaxSteps

\* every operation counts as a step and shifts the record of the last call
Step(call) ==
  /\ steps' = steps + 1
  /\ last' = call
  /\ prev' = IF last.op \in {"applyRename", "prepareRename"} THEN last ELSE NoCall
  /\ UNCHANGED <<host, flight>>

(***************************************************************************)
(* Rename helpers.  A run threads the record                               *)
(*   [disk, ix, n, io, failed, updatedFiles, failedFiles]                  *)
(* through the I/O calls of one applyRename: n counts the calls made, io   *)
(* logs them, and the call numbered failAt throws (0: none is made to).    *)
(***************************************************************************)
CaseBlindPlatforms == {"win32", "darwin"}

\* path.resolve of an absolute, normalised path
resolve(p) == p

isCaseOnlyChange(sourcePath, targetPath) ==
  /\ toLowerCase(resolve(sourcePath)) = toLowerCase(resolve(targetPath))
  /\ resolve(sourcePath) # resolve(targetPath)

\* checkRenameConflict with the negation of its exemption dropped
RenameConflictOnCaseChange(d, h, sourcePath, targetPath) ==
  /\ sourcePath # targetPath
  /\ existsSync(d, h.ci, targetPath)
  /\ isCaseOnlyChange(sourcePath, targetPath) /\ h.platform \in CaseBlindPlatforms

\* checkRenameConflict throws
RenameConflict(d, h, sourcePath, targetPath) ==
  /\ sourcePath # targetPath
  /\ existsSync(d, h.ci, targetPath)
  /\ ~(isCaseOnlyChange(sourcePath, targetPath) /\ h.platform \in CaseBlindPlatforms)

\* `${targetPath}.tmp-${Date.now()}`, the clock read being now
ClockText(now) == <<<<"0", "1", "2", "3", "4", "5", "6", "7", "8", "9">>[now + 1]>>

TempPath(targetPath, now) == targetPath \o <<".", "t", "m", "p", "-">> \o ClockText(now)

IoEntry(call, path, content, failed) ==
  [call |-> call, path |-> path, content |-> content, failed |-> failed]

Thrown(rs, call, path) ==
  [rs EXCEPT !.n = rs.n + 1, !.failed = TRUE,
             !.io = Append(rs.io, IoEntry(call, path, Null, TRUE))]

\* one fs.rename
RenameCall(rs, ci, failAt, from, to) ==
  IF rs.n + 1 = failAt \/ ~existsSync(rs.disk, ci, from)
    THEN Thrown(rs, "rename", from)
    ELSE [rs EXCEPT !.n = rs.n + 1,
                    !.disk = fsRename(rs.disk, ci, from, to),
                    !.io = Append(rs.io, IoEntry("rename", from, to, FALSE))]

\* the second fs.rename of a change of case, made when the first has not thrown
SecondRename(first, ci, failAt, targetPath) ==
  IF first.failed THEN first
  ELSE RenameCall(first, ci, failAt, TempPath(targetPath, first.now), targetPath)

\* renamePathSafe without the temporary name
renamePathDirect(rs, h, failAt, sourcePath, targetPath) ==
  IF sourcePath = targetPath THEN rs
  ELSE RenameCall(rs, h.ci, failAt, sourcePath, targetPath)

renamePathSafe(rs, h, failAt, sourcePath, targetPath) ==
  IF sourcePath = targetPath THEN rs
  ELSE IF isCaseOnlyChange(sourcePath, targetPath) /\ h.platform \in CaseBlindPlatforms
    THEN SecondRename(RenameCall(rs, h.ci, failAt, sourcePath, TempPath(targetPath, rs.now)),
                      h.ci, failAt, targetPath)
  ELSE RenameCall(rs, h.ci, failAt, sourcePath, targetPath)

\* the body of the loop of applyRename for adjustedPaths[index], whose read
\* returned content and whose links rewritten are nextContent
RECURSIVE RewriteLoop(_, _, _, _, _, _, _, _)
\* the body of the loop going on to the next file when the write throws
RewriteFileGoingOn(rs, ci, failAt, adjustedPaths, index, sourcePath, newTitle, snapshot, content, nextContent) ==
  IF nextContent = content
    THEN RewriteLoop(
           [rs EXCEPT !.n = rs.n + 1,
                      !.io = Append(rs.io, IoEntry("read", adjustedPaths[index], content, FALSE)),
                      !.updatedFiles = Append(rs.updatedFiles, adjustedPaths[index])],
           ci, failAt, adjustedPaths, index + 1, sourcePath, newTitle, snapshot)
  ELSE IF rs.n + 2 = failAt
    THEN RewriteLoop(
           [rs EXCEPT !.n = rs.n + 2, !.failed = TRUE,
                      !.io = rs.io \o <<IoEntry("read", adjustedPaths[index], content, FALSE),
                                        IoEntry("write", adjustedPaths[index], Null, TRUE)>>,
                      !.failedFiles = Append(rs.failedFiles, adjustedPaths[index])],
           ci, failAt, adjustedPaths, index + 1, sourcePath, newTitle, snapshot)
  ELSE RewriteLoop(
         [rs EXCEPT !.n = rs.n + 2,
                    !.disk = writeFile(rs.disk, ci, adjustedPaths[index], nextContent),
                    !.io = rs.io \o <<IoEntry("read", adjustedPaths[index], content, FALSE),
                                      IoEntry("write", adjustedPaths[index], nextContent, FALSE)>>,
                    !.updatedFiles = Append(rs.updatedFiles, adjustedPaths[index])],
         ci, failAt, adjustedPaths, index + 1, sourcePath, newTitle, snapshot)

RewriteFile(rs, ci, failAt, adjustedPaths, index, sourcePath, newTitle, snapshot, content, nextContent) ==
  IF nextContent = content
    THEN RewriteLoop(
           [rs EXCEPT !.n = rs.n + 1,
                      !.io = Append(rs.io, IoEntry("read", adjustedPaths[index], content, FALSE)),
                      !.updatedFiles = Append(rs.updatedFiles, adjustedPaths[index])],
           ci, failAt, adjustedPaths, index + 1, sourcePath, newTitle, snapshot)
  ELSE IF rs.n + 2 = failAt
    THEN [rs EXCEPT !.n = rs.n + 2, !.failed = TRUE,
                    !.io = rs.io \o <<IoEntry("read", adjustedPaths[index], content, FALSE),
                                      IoEntry("write", adjustedPaths[index], Null, TRUE)>>,
                    !.failedFiles = SubSeq(adjustedPaths, index, Len(adjustedPaths))]
  ELSE RewriteLoop(
         [rs EXCEPT !.n = rs.n + 2,
                    !.disk = writeFile(rs.disk, ci, adjustedPaths[index], nextContent),
                    !.io = rs.io \o <<IoEntry("read", adjustedPaths[index], content, FALSE),
                                      IoEntry("write", adjustedPaths[index], nextContent, FALSE)>>,
                    !.updatedFiles = Append(rs.updatedFiles, adjustedPaths[index])],
         ci, failAt, adjustedPaths, index + 1, sourcePath, newTitle, snapshot)

\* the loop reporting only the file whose read throws as failed
RewriteLoopFailingOne(rs, ci, failAt, adjustedPaths, index, sourcePath, newTitle, titleMapSnapshot) ==
  IF index > Len(adjustedPaths) THEN rs
  ELSE IF rs.n + 1 = failAt \/ ~existsSync(rs.disk, ci, adjustedPaths[index])
    THEN [Thrown(rs, "read", adjustedPaths[index]) EXCEPT
            !.failedFiles = <<adjustedPaths[index]>>]
  ELSE RewriteFile(rs, ci, failAt, adjustedPaths, index, sourcePath, newTitle,
                   titleMapSnapshot, readFile(rs.disk, ci, adjustedPaths[index]),
                   updateWikiLinksInContent(readFile(rs.disk, ci, adjustedPaths[index]),
                                            sourcePath, newTitle, titleMapSnapshot))

\* the loop of applyRename over adjustedPaths[index..] (index from 1)
RewriteLoop(rs, ci, failAt, adjustedPaths, index, sourcePath, newTitle, titleMapSnapshot) ==
  IF index > Len(adjustedPaths) THEN rs
  ELSE IF rs.n + 1 = failAt \/ ~existsSync(rs.disk, ci, adjustedPaths[index])
    THEN [Thrown(rs, "read", adjustedPaths[index]) EXCEPT
            !.failedFiles = SubSeq(adjustedPaths, index, Len(adjustedPaths))]
  ELSE RewriteFile(rs, ci, failAt, adjustedPaths, index, sourcePath, newTitle,
                   titleMapSnapshot, readFile(rs.disk, ci, adjustedPaths[index]),
                   updateWikiLinksInContent(readFile(rs.disk, ci, adjustedPaths[index]),
                                            sourcePath, newTitle, titleMapSnapshot))

\* the indexFileOnly calls of applyRename over pathsToIndex[i..]
RECURSIVE ReindexLoop(_, _, _, _, _, _)
ReindexLoop(rs, ci, failAt, vault, pathsToIndex, i) ==
  IF i > Len(pathsToIndex) THEN rs
  ELSE IF ~isMarkdownFile(pathsToIndex[i]) \/ IndexFileSkips(vault, pathsToIndex[i])
    THEN ReindexLoop(rs, ci, failAt, vault, pathsToIndex, i + 1)
  ELSE IF rs.n + 1 = failAt \/ ~existsSync(rs.disk, ci, pathsToIndex[i])
    THEN Thrown(rs, "index", pathsToIndex[i])
  ELSE ReindexLoop(
         [rs EXCEPT !.n = rs.n + 1,
                    !.ix = indexFile(rs.ix, vault, pathsToIndex[i],
                                     readFile(rs.disk, ci, pathsToIndex[i]), TRUE),
                    !.io = Append(rs.io, IoEntry("index", pathsToIndex[i],
                                                 readFile(rs.disk, ci, pathsToIndex[i]), FALSE))],
         ci, failAt, vault, pathsToIndex, i + 1)

\* the catch of applyRename throwing the error again
FailureRethrown(call, rs, ix, error) ==
  [disk |-> rs.disk, ix |-> ix,
   call |-> [call EXCEPT !.threw = TRUE, !.error = error, !.updatedFiles = rs.updatedFiles,
                         !.failedFiles = rs.failedFiles, !.io = rs.io]]

\* what the handler returns: the disk and the index it leaves with its result
Failure(call, rs, ix, error) ==
  [disk |-> rs.disk, ix |-> ix,
   call |-> [call EXCEPT !.ok = FALSE, !.error = error, !.updatedFiles = rs.updatedFiles,
                         !.failedFiles = rs.failedFiles, !.io = rs.io]]

Success(call, rs, ix) ==
  [disk |-> rs.disk, ix |-> ix,
   call |-> [call EXCEPT !.ok = TRUE, !.updatedFiles = rs.updatedFiles,
                         !.failedFiles = rs.failedFiles, !.io = rs.io]]

\* adjustedPaths of applyRename
AdjustedPaths(affectedFiles, sourcePath, targetPath) ==
  [k \in DOMAIN affectedFiles |->
     IF affectedFiles[k] = sourcePath THEN targetPath ELSE affectedFiles[k]]

\* applyRename once the indexFileOnly calls are over
AfterReindex(indexed, call) ==
  IF indexed.failed
    THEN Failure(call, indexed, indexed.ix, "io")
    ELSE Success(call, indexed, rebuildDerivedIndexes(indexed.ix))

\* AfterRewrite with the move undone when the loop has thrown
AfterRewriteUndoingMove(rewritten, call, ix, h, vault, sourcePath, targetPath, failAt, adjustedPaths) ==
  IF rewritten.failed
    THEN Failure(call,
                 [rewritten EXCEPT !.disk = fsRename(rewritten.disk, h.ci, targetPath, sourcePath)],
                 ix, "io")
    ELSE AfterReindex(
           ReindexLoop([rewritten EXCEPT !.ix = removeFile(ix, sourcePath)], h.ci, failAt, vault,
                       Dedup(<<targetPath>> \o adjustedPaths), 1),
           call)

\* applyRename once the loop over adjustedPaths is over
AfterRewrite(rewritten, call, ix, h, vault, sourcePath, targetPath, failAt, adjustedPaths) ==
  IF rewritten.failed
    THEN Failure(call, rewritten, ix, "io")
    ELSE AfterReindex(
           ReindexLoop([rewritten EXCEPT !.ix = removeFile(ix, sourcePath)], h.ci, failAt, vault,
                       Dedup(<<targetPath>> \o adjustedPaths), 1),
           call)

\* AfterSnapshot with shouldUpdateLinks always true
AfterSnapshotAlwaysUpdating(moved, call, ix, h, vault, sourcePath, targetPath, failAt, affectedFiles) ==
  AfterRewrite(
    RewriteLoop(moved, h.ci, failAt, AdjustedPaths(affectedFiles, sourcePath, targetPath),
                1, sourcePath, noteTitleFromPath(targetPath), ix.titleToPath),
    [call EXCEPT !.affectedFiles = affectedFiles], ix, h, vault, sourcePath, targetPath, failAt,
    AdjustedPaths(affectedFiles, sourcePath, targetPath))

\* applyRename for a note once it is moved; affectedFiles is what
\* getAffectedFilesForRename returns
AfterSnapshot(moved, call, ix, h, vault, sourcePath, targetPath, failAt, affectedFiles) ==
  AfterRewrite(
    RewriteLoop(moved, h.ci, failAt,
                AdjustedPaths(IF noteTitleFromPath(sourcePath) # noteTitleFromPath(targetPath)
                                THEN affectedFiles ELSE <<>>,
                              sourcePath, targetPath),
                1, sourcePath, noteTitleFromPath(targetPath), ix.titleToPath),
    [call EXCEPT !.affectedFiles = affectedFiles], ix, h, vault, sourcePath, targetPath, failAt,
    AdjustedPaths(IF noteTitleFromPath(sourcePath) # noteTitleFromPath(targetPath)
                    THEN affectedFiles ELSE <<>>,
                  sourcePath, targetPath))

\* applyRename once renamePathSafe is over
AfterMove(moved, call, ix, h, vault, sourcePath, targetPath, failAt) ==
  IF moved.failed THEN Failure(call, moved, ix, "io")
  ELSE IF ~isMarkdownFile(sourcePath) THEN Success(call, moved, ix)
  ELSE AfterSnapshot(moved, call, ix, h, vault, sourcePath, targetPath, failAt,
                     getAffectedFilesForRename(ix.backlinks, sourcePath))

NewRun(d, ix, now) ==
  [disk |-> d, ix |-> ix, n |-> 0, io |-> <<>>, failed |-> FALSE,
   updatedFiles |-> <<>>, failedFiles |-> <<>>, now |-> now]

\* the handler of entry:applyRename with a vault set
applyRename(d, ix, h, vault, sourcePath, targetPath, failAt, now) ==
  IF RenameConflict(d, h, sourcePath, targetPath)
    THEN Failure(Call("applyRename", sourcePath, targetPath), NewRun(d, ix, now), ix,
                 "already exists")
    ELSE AfterMove(renamePathSafe(NewRun(d, ix, now), h, failAt, sourcePath, targetPath),
                   Call("applyRename", sourcePath, targetPath), ix, h, vault, sourcePath,
                   targetPath, failAt)

(***************************************************************************)
(* Operations                                                              *)
(***************************************************************************)
\* VaultIndex.updateFile: nothing changes when the read of indexFile throws
updateFile(ix, d, ci, vault, filePath) ==
  IF IndexFileSkips(vault, filePath) THEN rebuildDerivedIndexes(ix)
  ELSE IF ~existsSync(d, ci, filePath) THEN ix
  ELSE rebuildDerivedIndexes(indexFile(ix, vault, filePath, readFile(d, ci, filePath), TRUE))

Untouched ==
  UNCHANGED <<vaultPath, disk, notes, titleToPath, backlinks, tagIndex, inserted>>

\* vault:set: the vault path is set and the index is built from the files,
\* the inserts made in the order in which the reads complete
VaultSet(newVaultPath) ==
  /\ CanStep
  /\ \E order \in Orders(getAllMarkdownFiles(disk, newVaultPath)) :
       \E ix \in {build(disk, host.ci, newVaultPath, order)} : SetIndex(ix)
  /\ vaultPath' = newVaultPath
  /\ UNCHANGED disk
  /\ Step(Call("vault:set", newVaultPath, Null))

\* the watcher's add and change handlers
WatcherChange(filePath) ==
  /\ CanStep
  /\ vaultPath # Null
  /\ isMarkdownFile(filePath)
  /\ \E ix \in {updateFile(Index, disk, host.ci, vaultPath, filePath)} : SetIndex(ix)
  /\ UNCHANGED <<vaultPath, disk>>
  /\ Step(Call("updateFile", filePath, Null))

\* the watcher's unlink handler
WatcherUnlink(filePath) ==
  /\ CanStep
  /\ vaultPath # Null
  /\ isMarkdownFile(filePath)
  /\ \E ix \in {removeFile(Index, filePath)} : SetIndex(ix)
  /\ UNCHANGED <<vaultPath, disk>>
  /\ Step(Call("removeFile", filePath, Null))

\* file:write
FileWrite(filePath, content) ==
  /\ CanStep
  /\ IF vaultPath = Null
       THEN Untouched /\ Step(VaultNotSet("file:write"))
       ELSE /\ disk' = writeFile(disk, host.ci, filePath, content)
            /\ \E ix \in {updateFile(Index, disk', host.ci, vaultPath, filePath)} : SetIndex(ix)
            /\ UNCHANGED vaultPath
            /\ Step(Call("file:write", filePath, Null))

\* entry:delete
EntryDelete(targetPath) ==
  /\ CanStep
  /\ IF vaultPath = Null
       THEN Untouched /\ Step(VaultNotSet("entry:delete"))
       ELSE /\ disk' = fsRm(disk, host.ci, targetPath)
            /\ \E ix \in {IF isMarkdownFile(targetPath) THEN removeFile(Index, targetPath)
                                                            ELSE Index} : SetIndex(ix)
            /\ UNCHANGED vaultPath
            /\ Step(Call("entry:delete", targetPath, Null))

\* another program writes or deletes a file of the open vault
ExternalWrite(filePath, content) ==
  /\ CanStep
  /\ vaultPath # Null
  /\ disk' = writeFile(disk, host.ci, filePath, content)
  /\ UNCHANGED <<vaultPath, notes, titleToPath, backlinks, tagIndex, inserted>>
  /\ Step(Call("external write", filePath, Null))

ExternalDelete(filePath) ==
  /\ CanStep
  /\ vaultPath # Null
  /\ existsSync(disk, host.ci, filePath)
  /\ disk' = fsRm(disk, host.ci, filePath)
  /\ UNCHANGED <<vaultPath, notes, titleToPath, backlinks, tagIndex, inserted>>
  /\ Step(Call("external delete", filePath, Null))

\* prepareRename leaving the renamed note itself out of affectedFiles
prepareRenameOmittingSource(ix, sourcePath, targetPath) ==
  [ix |-> ix,
   call |-> [Call("prepareRename", sourcePath, targetPath) EXCEPT
               !.ok = TRUE,
               !.affectedFiles =
                 IF isMarkdownFile(sourcePath)
                   THEN SelectSeq(getAffectedFilesForRename(ix.backlinks, sourcePath),
                                  LAMBDA f : f # sourcePath)
                   ELSE <<>>]]

\* the handler of entry:prepareRename with a vault set: the index it leaves
\* and the preview it returns
prepareRename(ix, sourcePath, targetPath) ==
  [ix |-> ix,
   call |-> [Call("prepareRename", sourcePath, targetPath) EXCEPT
               !.ok = TRUE,
               !.affectedFiles =
                 IF isMarkdownFile(sourcePath)
                   THEN getAffectedFilesForRename(ix.backlinks, sourcePath)
                   ELSE <<>>]]

\* entry:prepareRename
PrepareRename(sourcePath, targetPath) ==
  /\ CanStep
  /\ IF vaultPath = Null
       THEN Untouched /\ Step(VaultNotSet("prepareRename"))
       ELSE \E run \in {prepareRename(Index, sourcePath, targetPath)} :
               /\ SetIndex(run.ix)
               /\ UNCHANGED <<vaultPath, disk>>
               /\ Step([run.call EXCEPT !.pre = Pre])

\* entry:applyRename
ApplyRename(sourcePath, targetPath, failAt) ==
  /\ CanStep
  /\ IF vaultPath = Null
       THEN Untouched /\ Step(VaultNotSet("applyRename"))
       ELSE \E run \in {applyRename(disk, Index, host, vaultPath, sourcePath, targetPath, failAt,
                                      steps)} :
               /\ disk' = run.disk
               /\ SetIndex(run.ix)
               /\ UNCHANGED vaultPath
               /\ Step([run.call EXCEPT !.pre = Pre])

Next ==
  \/ VaultSet(Root)
  \/ \E f \in NotePathsUsed : WatcherChange(f)
  \/ \E f \in NotePathsUsed : WatcherUnlink(f)
  \/ \E w \in WritesUsed : FileWrite(w[1], w[2])
  \/ \E f \in DeletesUsed : EntryDelete(f)
  \/ \E w \in WritesUsed : ExternalWrite(w[1], w[2])
  \/ \E f \in ExternalDeletesUsed : ExternalDelete(f)
  \/ \E r \in PreviewsUsed : PrepareRename(r[1], r[2])
  \/ \E r \in RenamesUsed, failAt \in 0..MaxFaultPos : ApplyRename(r[1], r[2], failAt)

Spec == Init /\ [][Next]_vars

(***************************************************************************)
(* applyRename step by step.  The handler runs from one await to the next  *)
(* without interruption and is suspended in between, where the handlers of *)
(* other calls and of the watcher run.  flight.rename holds its locals and *)
(* pc names the await it is suspended at:                                  *)
(*   "moved"  renamePathSafe, the file being moved on the disk             *)
(*   "read"   fs.readFile of adjustedPaths[index]                          *)
(*   "write"  the read has been made, its content is on its way to the     *)
(*            handler, which rewrites it and has it written                *)
(*   "index"  indexFileOnly of pathsToIndex[index]                         *)
(* No I/O call is made to throw; a call throws when its file is missing.   *)
(***************************************************************************)
RenameFlight(sourcePath, targetPath, moved) ==
  [pc |-> "moved", src |-> sourcePath, tgt |-> targetPath, pre |-> Pre, began |-> steps + 1,
   snapshot |-> Null, affectedFiles |-> <<>>, adjustedPaths |-> <<>>, index |-> 0,
   content |-> Null, pathsToIndex |-> <<>>, updatedFiles |-> <<>>, failedFiles |-> <<>>,
   io |-> moved.io, unlinkSeen |-> FALSE, addSeen |-> FALSE]

\* what the handler returns, with what it worked on
Returned(fl, ok, error) ==
  [op |-> "applyRename", src |-> fl.src, tgt |-> fl.tgt, threw |-> FALSE, ok |-> ok,
   error |-> error, updatedFiles |-> fl.updatedFiles, failedFiles |-> fl.failedFiles,
   affectedFiles |-> fl.affectedFiles, io |-> fl.io, pre |-> fl.pre, began |-> fl.began,
   snapshot |-> fl.snapshot, unlinkSeen |-> fl.unlinkSeen, addSeen |-> fl.addSeen]

\* the handler returns call, leaving the index ix and the disk d
Complete(call, ix, d) ==
  /\ last' = call
  /\ prev' = NoCall
  /\ flight' = [flight EXCEPT !.rename = Idle]
  /\ disk' = d
  /\ SetIndex(ix)
  /\ UNCHANGED <<vaultPath, host, steps>>

\* the handler is suspended with the locals fl, leaving the index ix and the disk d
Suspend(fl, ix, d) ==
  /\ flight' = [flight EXCEPT !.rename = fl]
  /\ disk' = d
  /\ SetIndex(ix)
  /\ UNCHANGED <<vaultPath, host, steps, last, prev>>

\* the first note of paths from position j on, Len(paths) + 1 when there is none
NextNote(paths, j) ==
  IF \E k \in j..Len(paths) : isMarkdownFile(paths[k])
    THEN CHOOSE k \in j..Len(paths) :
           isMarkdownFile(paths[k]) /\ \A i \in j..(k - 1) : ~isMarkdownFile(paths[i])
    ELSE Len(paths) + 1

\* the loop over pathsToIndex from position fl.index: the next indexFileOnly
\* is awaited, or rebuildDerivedIndexes is run and the handler returns
IndexHead(fl, ix, d) ==
  IF NextNote(fl.pathsToIndex, fl.index) > Len(fl.pathsToIndex)
    THEN Complete(Returned(fl, TRUE, ""), rebuildDerivedIndexes(ix), d)
    ELSE Suspend([fl EXCEPT !.pc = "index", !.index = NextNote(fl.pathsToIndex, fl.index)], ix, d)

\* the loop over adjustedPaths from position fl.index: the next read is
\* awaited, or the loop is over, removeFile(sourcePath) is run and the
\* re-indexing starts
LoopHead(fl, d) ==
  IF fl.index <= Len(fl.adjustedPaths)
    THEN Suspend([fl EXCEPT !.pc = "read"], Index, d)
    ELSE IndexHead([fl EXCEPT !.pathsToIndex = Dedup(<<fl.tgt>> \o fl.adjustedPaths), !.index = 1],
                   removeFile(Index, fl.src), d)

\* entry:applyRename is called: the conflict check, then renamePathSafe,
\* which moves the file
RenameBegin(sourcePath, targetPath) ==
  /\ CanStep
  /\ vaultPath # Null
  /\ flight.rename = Idle
  /\ steps' = steps + 1
  /\ UNCHANGED <<vaultPath, host, notes, titleToPath, backlinks, tagIndex, inserted>>
  /\ LET moved == renamePathSafe(NewRun(disk, Index, steps), host, 0, sourcePath, targetPath)
     IN IF RenameConflict(disk, host, sourcePath, targetPath)
          THEN /\ last' = [Failure(Call("applyRename", sourcePath, targetPath),
                                   NewRun(disk, Index, steps), Index, "already exists").call
                             EXCEPT !.pre = Pre]
               /\ UNCHANGED <<disk, flight, prev>>
        ELSE IF moved.failed
          THEN /\ last' = [Failure(Call("applyRename", sourcePath, targetPath), moved, Index,
                                   "io").call EXCEPT !.pre = Pre]
               /\ UNCHANGED <<disk, flight, prev>>
        ELSE /\ flight' = [flight EXCEPT !.rename = RenameFlight(sourcePath, targetPath, moved)]
             /\ disk' = moved.disk
             /\ UNCHANGED <<last, prev>>

\* the handler resumes after renamePathSafe: it takes the snapshot and the
\* affected files and enters the loop
RenameResume ==
  /\ flight.rename.pc = "moved"
  /\ LET fl == flight.rename
         affectedFiles == getAffectedFilesForRename(backlinks, fl.src)
         pathsToUpdate == IF noteTitleFromPath(fl.src) # noteTitleFromPath(fl.tgt)
                            THEN affectedFiles ELSE <<>>
     IN IF ~isMarkdownFile(fl.src)
          THEN Complete(Returned(fl, TRUE, ""), Index, disk)
          ELSE LoopHead([fl EXCEPT !.snapshot = titleToPath,
                                   !.affectedFiles = affectedFiles,
                                   !.adjustedPaths = AdjustedPaths(pathsToUpdate, fl.src, fl.tgt),
                                   !.index = 1],
                        disk)

\* the read of adjustedPaths[index] is made on the disk
RenameRead ==
  /\ flight.rename.pc = "read"
  /\ LET fl == flight.rename
         filePath == fl.adjustedPaths[fl.index]
     IN IF ~existsSync(disk, host.ci, filePath)
          THEN Complete(
                 Returned([fl EXCEPT !.failedFiles = SubSeq(fl.adjustedPaths, fl.index,
                                                            Len(fl.adjustedPaths)),
                                     !.io = Append(fl.io, IoEntry("read", filePath, Null, TRUE))],
                          FALSE, "io"),
                 Index, disk)
          ELSE Suspend([fl EXCEPT !.pc = "write", !.content = readFile(disk, host.ci, filePath)],
                       Index, disk)

\* a write of the loop as logged: content is what is written, found what the
\* file held just before, during the last call made before the write
WriteEntry(filePath, nextContent, found, during) ==
  [call |-> "write", path |-> filePath, content |-> nextContent, failed |-> FALSE,
   found |-> found, during |-> during]

\* RenameWrite working on what the file holds when the handler resumes
RenameWriteFresh ==
  /\ flight.rename.pc = "write"
  /\ LET fl == flight.rename
         filePath == fl.adjustedPaths[fl.index]
         found == IF existsSync(disk, host.ci, filePath) THEN readFile(disk, host.ci, filePath)
                  ELSE Null
         nextContent == updateWikiLinksInContent(found, fl.src, noteTitleFromPath(fl.tgt),
                                                 fl.snapshot)
         read == IoEntry("read", filePath, found, FALSE)
     IN LoopHead([fl EXCEPT !.index = fl.index + 1,
                            !.updatedFiles = Append(fl.updatedFiles, filePath),
                            !.io = IF nextContent # found
                                     THEN fl.io \o <<read, WriteEntry(filePath, nextContent, found, last)>>
                                     ELSE Append(fl.io, read)],
                 IF nextContent # found
                   THEN writeFile(disk, host.ci, filePath, nextContent)
                   ELSE disk)

\* the handler resumes with the content read: it rewrites the links, has the
\* file written when the content changed, and goes on with the loop
RenameWrite ==
  /\ flight.rename.pc = "write"
  /\ LET fl == flight.rename
         filePath == fl.adjustedPaths[fl.index]
         nextContent == updateWikiLinksInContent(fl.content, fl.src, noteTitleFromPath(fl.tgt),
                                                 fl.snapshot)
         found == IF existsSync(disk, host.ci, filePath) THEN readFile(disk, host.ci, filePath)
                  ELSE Null
         read == IoEntry("read", filePath, fl.content, FALSE)
     IN LoopHead([fl EXCEPT !.index = fl.index + 1,
                            !.updatedFiles = Append(fl.updatedFiles, filePath),
                            !.io = IF nextContent # fl.content
                                     THEN fl.io \o <<read, WriteEntry(filePath, nextContent, found, last)>>
                                     ELSE Append(fl.io, read)],
                 IF nextContent # fl.content
                   THEN writeFile(disk, host.ci, filePath, nextContent)
                   ELSE disk)

\* indexFileOnly(pathsToIndex[index]) reads the file and registers it
RenameIndex ==
  /\ flight.rename.pc = "index"
  /\ LET fl == flight.rename
         filePath == fl.pathsToIndex[fl.index]
     IN IF ~existsSync(disk, host.ci, filePath)
          THEN Complete(
                 Returned([fl EXCEPT !.io = Append(fl.io, IoEntry("index", filePath, Null, TRUE))],
                          FALSE, "io"),
                 Index, disk)
          ELSE IndexHead([fl EXCEPT !.index = fl.index + 1,
                                    !.io = Append(fl.io, IoEntry("index", filePath,
                                                    readFile(disk, host.ci, filePath), FALSE))],
                         indexFile(Index, vaultPath, filePath, readFile(disk, host.ci, filePath),
                                   TRUE),
                         disk)

\* the watcher reports the move of the file: unlink(sourcePath)
MoveUnlink ==
  /\ flight.rename.pc # "idle"
  /\ ~flight.rename.unlinkSeen
  /\ flight.rename.src # flight.rename.tgt
  /\ isMarkdownFile(flight.rename.src)
  /\ SetIndex(removeFile(Index, flight.rename.src))
  /\ flight' = [flight EXCEPT !.rename.unlinkSeen = TRUE]
  /\ UNCHANGED <<vaultPath, host, disk, last, prev, steps>>

\* the watcher reports the move of the file: add(targetPath)
MoveAdd ==
  /\ flight.rename.pc # "idle"
  /\ ~flight.rename.addSeen
  /\ flight.rename.src # flight.rename.tgt
  /\ isMarkdownFile(flight.rename.tgt)
  /\ existsSync(disk, host.ci, flight.rename.tgt)
  /\ SetIndex(updateFile(Index, disk, host.ci, vaultPath, flight.rename.tgt))
  /\ flight' = [flight EXCEPT !.rename.addSeen = TRUE]
  /\ UNCHANGED <<vaultPath, host, disk, last, prev, steps>>

\* the other handlers are followed while a rename is suspended
NextAsync ==
  \/ flight.rename = Idle /\ VaultSet(Root)
  \/ \E r \in RenamesUsed : RenameBegin(r[1], r[2])
  \/ RenameResume
  \/ RenameRead
  \/ RenameWrite
  \/ RenameIndex
  \/ MoveUnlink
  \/ MoveAdd
  \/ flight.rename # Idle /\ \E f \in NotePathsUsed : WatcherChange(f)
  \/ flight.rename # Idle /\ \E f \in NotePathsUsed : WatcherUnlink(f)
  \/ flight.rename # Idle /\ \E w \in WritesUsed : FileWrite(w[1], w[2])
  \/ flight.rename # Idle /\ \E w \in WritesUsed : ExternalWrite(w[1], w[2])

SpecAsync == Init /\ [][NextAsync]_vars

(***************************************************************************)
(* vault:set and updateFile step by step.  flight.build holds the locals   *)
(* of a vault:set suspended at                                             *)
(*   "settings"  updateSettings                                            *)
(*   "scan"      getAllMarkdownFiles, build having emptied the maps        *)
(*   "reads"     the indexFile calls of build, those of pending not yet    *)
(*               resumed from their read                                    *)
(* and flight.update the file of an updateFile suspended at its read.      *)
(* A run starts with the first vault open and built; the disk holds the    *)
(* files of both vaults and does not change.                               *)
(***************************************************************************)
InitSwitch ==
  /\ vaultPath = Root
  /\ host \in Hosts
  /\ \E d \in InitialDisks :
       /\ disk = d @@ (PathOther :> TextPlain)
       /\ \E order \in Orders(getAllMarkdownFiles(d, Root)) :
            \E ix \in {build(d, host.ci, Root, order)} :
              /\ notes = ix.notes
              /\ titleToPath = ix.titleToPath
              /\ backlinks = ix.backlinks
              /\ tagIndex = ix.tagIndex
              /\ inserted = ix.inserted
  /\ last = NoCall
  /\ prev = NoCall
  /\ steps = 0
  /\ flight = NoFlight

\* the watcher reports a file of the vault it watches and its handler calls
\* updateFile, whose indexFile is suspended at its read
UpdateBegin(filePath) ==
  /\ CanStep
  /\ flight.update = Idle
  /\ flight.build = Idle
  /\ vaultPath # Null
  /\ filePath \in DOMAIN disk
  /\ startsWith(filePath, vaultPath \o <<"/">>)
  /\ isMarkdownFile(filePath)
  /\ flight' = [flight EXCEPT !.update = [pc |-> "read", path |-> filePath]]
  /\ steps' = steps + 1
  /\ UNCHANGED <<vaultPath, host, disk, notes, titleToPath, backlinks, tagIndex, inserted, last, prev>>

\* indexFile resumes from its read, registers the file in the maps of the
\* moment, and updateFile rebuilds the derived indexes
UpdateResume ==
  /\ flight.update.pc = "read"
  /\ SetIndex(updateFile(Index, disk, host.ci, vaultPath, flight.update.path))
  /\ flight' = [flight EXCEPT !.update = Idle,
                              !.build = IF flight.build = Idle THEN Idle
                                        ELSE [flight.build EXCEPT !.mixed = TRUE]]
  /\ last' = Call("updateFile", flight.update.path, Null)
  /\ UNCHANGED <<vaultPath, host, disk, prev, steps>>

\* vault:set is called: the vault path is set and updateSettings awaited
SwitchBegin(newVaultPath) ==
  /\ CanStep
  /\ flight.build = Idle
  /\ vaultPath' = newVaultPath
  /\ flight' = [flight EXCEPT !.build = [pc |-> "settings", pending |-> {}, mixed |-> FALSE]]
  /\ steps' = steps + 1
  /\ UNCHANGED <<host, disk, notes, titleToPath, backlinks, tagIndex, inserted, last, prev>>

\* build starts: the maps are replaced by empty ones and the files listed
BuildReset ==
  /\ flight.build.pc = "settings"
  /\ SetIndex(EmptyIndex)
  /\ flight' = [flight EXCEPT !.build.pc = "scan"]
  /\ UNCHANGED <<vaultPath, host, disk, last, prev, steps>>

\* the files are listed and an indexFile is started for each
BuildScan ==
  /\ flight.build.pc = "scan"
  /\ flight' = [flight EXCEPT !.build.pc = "reads",
                              !.build.pending = getAllMarkdownFiles(disk, vaultPath)]
  /\ UNCHANGED <<vaultPath, host, disk, notes, titleToPath, backlinks, tagIndex, inserted, last, prev, steps>>

\* the indexFile of one file resumes from its read
BuildInsert(filePath) ==
  /\ flight.build.pc = "reads"
  /\ filePath \in flight.build.pending
  /\ SetIndex(indexFile(Index, vaultPath, filePath, readFile(disk, host.ci, filePath), FALSE))
  /\ flight' = [flight EXCEPT !.build.pending = flight.build.pending \ {filePath}]
  /\ UNCHANGED <<vaultPath, host, disk, last, prev, steps>>

\* every indexFile has returned: build rebuilds the derived indexes and
\* vault:set returns
BuildEnd ==
  /\ flight.build.pc = "reads"
  /\ flight.build.pending = {}
  /\ SetIndex(rebuildDerivedIndexes(Index))
  /\ flight' = [flight EXCEPT !.build = Idle]
  /\ last' = [op |-> "vault:set", src |-> vaultPath, threw |-> FALSE, mixed |-> flight.build.mixed]
  /\ UNCHANGED <<vaultPath, host, disk, prev, steps>>

NextSwitch ==
  \/ \E f \in NotePathsUsed \cup {PathOther} : UpdateBegin(f)
  \/ UpdateResume
  \/ \E v \in {Root, Root2} : SwitchBegin(v)
  \/ BuildReset
  \/ BuildScan
  \/ \E f \in NotePathsUsed \cup {PathOther} : BuildInsert(f)
  \/ BuildEnd

SpecSwitch == InitSwitch /\ [][NextSwitch]_vars

(***************************************************************************)
(* updateFile calls that overlap.  flight.updates holds the calls          *)
(* suspended in indexFile at Promise.all([readFile, stat]): the path of    *)
(* each and, once its readFile has been served, the content it got.  The   *)
(* call resumes when both promises have settled, which is at any time      *)
(* after the read.  A run starts with the first vault open and built.      *)
(***************************************************************************)
\* the most updateFile calls suspended together
MaxOverlap == 2

\* the contents written
OverlapTexts == {TextPlain, TextSpaced}

\* a suspended call out of the list
Without(calls, i) == [k \in 1..(Len(calls) - 1) |-> IF k < i THEN calls[k] ELSE calls[k + 1]]

\* a write to a note of the vault lands, and updateFile is called for it:
\* by file:write after its writeFile, or by the watcher's change handler
WriteLands(filePath, content) ==
  /\ CanStep
  /\ Len(flight.updates) < MaxOverlap
  /\ filePath \in DOMAIN disk
  /\ startsWith(filePath, vaultPath \o <<"/">>)
  /\ isMarkdownFile(filePath)
  /\ disk' = writeFile(disk, host.ci, filePath, content)
  /\ flight' = [flight EXCEPT !.updates = Append(@, [path |-> filePath, read |-> FALSE, content |-> Null])]
  /\ steps' = steps + 1
  /\ UNCHANGED <<vaultPath, host, notes, titleToPath, backlinks, tagIndex, inserted, last, prev>>

\* the readFile of a suspended call is served
ReadLands(i) ==
  /\ i \in DOMAIN flight.updates
  /\ ~flight.updates[i].read
  /\ flight' = [flight EXCEPT !.updates[i].read = TRUE,
                              !.updates[i].content = readFile(disk, host.ci, flight.updates[i].path)]
  /\ UNCHANGED <<vaultPath, host, disk, notes, titleToPath, backlinks, tagIndex, inserted, last, prev, steps>>

\* a suspended call resumes: indexFile registers what it read and
\* updateFile rebuilds the derived indexes
UpdateLands(i) ==
  /\ i \in DOMAIN flight.updates
  /\ flight.updates[i].read
  /\ SetIndex(rebuildDerivedIndexes(indexFile(Index, vaultPath, flight.updates[i].path,
                                               flight.updates[i].content, TRUE)))
  /\ flight' = [flight EXCEPT !.updates = Without(@, i)]
  /\ last' = Call("updateFile", flight.updates[i].path, Null)
  /\ UNCHANGED <<vaultPath, host, disk, prev, steps>>

NextOverlap ==
  \/ \E f \in NotePathsUsed, content \in OverlapTexts : WriteLands(f, content)
  \/ \E i \in 1..MaxOverlap : ReadLands(i)
  \/ \E i \in 1..MaxOverlap : UpdateLands(i)

SpecOverlap == InitSwitch /\ [][NextOverlap]_vars

(***************************************************************************)
(* The preview of a note with its embeds (EditorPanel).  last holds the    *)
(* note in preview and its EmbedBlock components: the place of each in the *)
(* tree, its props target, depth and visited, and what it shows.  A block  *)
(* shows "Loading embed" until its loadEmbed has run; when it shows        *)
(* content, the blocks of the embeds of that content are mounted.  The     *)
(* vault does not change during a preview, so loadEmbed is one step and    *)
(* the embeds of each note are taken once, into last.embeds.  The targets  *)
(* of the vaults here are titles: no image, no path, no heading.           *)
(***************************************************************************)
depthLimit == 3

\* the note root/<title>.md
NoteNamed(title) == Root \o <<"/">> \o title \o <<".", "m", "d">>

\* the text "![[t1]] ![[t2]] ..." embedding the given titles, "x" for none
RECURSIVE EmbedText(_)
EmbedText(titles) ==
  IF titles = <<>> THEN <<"x">>
  ELSE <<"!", "[", "[">> \o titles[1] \o <<"]", "]", " ">> \o EmbedText(Tail(titles))

\* a vault of the notes a to e, given by the titles each embeds
EmbedVault(a, b, c, d, e) ==
  (NoteNamed(<<"a">>) :> EmbedText(a)) @@ (NoteNamed(<<"b">>) :> EmbedText(b))
    @@ (NoteNamed(<<"c">>) :> EmbedText(c)) @@ (NoteNamed(<<"d">>) :> EmbedText(d))
    @@ (NoteNamed(<<"e">>) :> EmbedText(e))

\* the order the notes are read in when the vault is built
EmbedOrder == [k \in 1..5 |-> NoteNamed(<< <<"a", "b", "c", "d", "e">>[k] >>)]

\* the vaults previewed: a cycle of four notes; that cycle with a cycle of
\* two inside; a note embedding itself, two notes embedding each other and a
\* missing target; a chain of five notes; a note reached along two chains; a
\* note embedding three
EmbedVaults ==
  { EmbedVault(<< <<"b">> >>, << <<"c">> >>, << <<"d">> >>, << <<"a">> >>, <<>>),
    EmbedVault(<< <<"b">> >>, << <<"a">>, <<"c">> >>, << <<"d">> >>, << <<"a">> >>, <<>>),
    EmbedVault(<< <<"a">>, <<" ", "B">> >>, << <<"a">>, <<"z">> >>, <<>>, <<>>, <<>>),
    EmbedVault(<< <<"b">> >>, << <<"c">> >>, << <<"d">> >>, << <<"e">> >>, <<>>),
    EmbedVault(<< <<"b">>, <<"c">> >>, << <<"d">> >>, << <<"d">> >>, <<>>, <<>>),
    EmbedVault(<< <<"b">>, <<"c">>, <<"d">> >>, << <<"e">> >>, << <<"e">> >>, << <<"e">> >>, <<>>) }

\* the targets of the embeds of a text, in order: the img elements with an
\* "embed:" source that the renderer is given
EmbedTargets(content) ==
  LET all == SelectSeq(WikiMatches(content, 1), LAMBDA m : m.embed # <<>>)
  IN [k \in DOMAIN all |-> all[k].target]

\* the EmbedBlock components mounted for a text rendered at a depth, given
\* the targets of its embeds
Mounted(targets, place, depth, visited) ==
  {[place |-> Append(place, k), target |-> targets[k], depth |-> depth + 1,
    visited |-> visited, shows |-> "Loading embed", resolvedPath |-> Null] :
     k \in DOMAIN targets}

\* the blocks of the component tree that are still loading
Loading(blocks) == {b \in blocks : b.shows = "Loading embed"}

\* loadEmbed without the test of the visited set
loadEmbedIgnoringVisited(b, trimmedTarget, resolved, d, ci) ==
  IF b.depth > depthLimit THEN [b EXCEPT !.shows = "Embed depth limit reached"]
  ELSE IF trimmedTarget = <<>> THEN [b EXCEPT !.shows = "Missing embed target"]
  ELSE IF resolved = Null THEN [b EXCEPT !.shows = "Missing embed target"]
  ELSE IF ~existsSync(d, ci, resolved)
    THEN [b EXCEPT !.shows = "Missing embed target", !.resolvedPath = resolved]
  ELSE IF readFile(d, ci, resolved) = <<>>
    THEN [b EXCEPT !.shows = "Missing embed heading", !.resolvedPath = resolved]
  ELSE [b EXCEPT !.shows = "content", !.resolvedPath = resolved]

\* the part of the target before "#", trimmed
TrimmedTarget(target) == trim(SubSeq(target, 1, RunEnd(target, 1, {"#"}) - 1))

\* the state loadEmbed leaves block b in, resolved being what
\* vaultApi.openByTitle returns for its trimmed target
loadEmbed(b, trimmedTarget, resolved, d, ci) ==
  IF b.depth > depthLimit THEN [b EXCEPT !.shows = "Embed depth limit reached"]
  ELSE IF trimmedTarget = <<>> THEN [b EXCEPT !.shows = "Missing embed target"]
  ELSE IF resolved = Null THEN [b EXCEPT !.shows = "Missing embed target"]
  ELSE IF resolved \in b.visited THEN [b EXCEPT !.shows = "Embed cycle detected"]
  ELSE IF ~existsSync(d, ci, resolved)
    THEN [b EXCEPT !.shows = "Missing embed target", !.resolvedPath = resolved]
  ELSE IF readFile(d, ci, resolved) = <<>>
    THEN [b EXCEPT !.shows = "Missing embed heading", !.resolvedPath = resolved]
  ELSE [b EXCEPT !.shows = "content", !.resolvedPath = resolved]

\* the blocks mounted when b has come to show content
Nested(b, embeds, d, ci) ==
  IF b.shows = "content"
    THEN Mounted(embeds[DiskKey(d, ci, b.resolvedPath)], b.place, b.depth,
                 b.visited \cup {b.resolvedPath})
    ELSE {}

\* a vault is open and built and one of its notes is in preview
InitEmbed ==
  /\ vaultPath = Root
  /\ host \in Hosts
  /\ disk \in EmbedVaults
  /\ \E ix \in {build(disk, host.ci, Root, EmbedOrder)} :
       /\ notes = ix.notes
       /\ titleToPath = ix.titleToPath
       /\ backlinks = ix.backlinks
       /\ tagIndex = ix.tagIndex
       /\ inserted = ix.inserted
  /\ \E active \in DOMAIN disk :
       last = [op |-> "preview", src |-> active,
               embeds |-> [f \in DOMAIN disk |-> EmbedTargets(disk[f])],
               blocks |-> Mounted(EmbedTargets(disk[active]), <<>>, 0, {active})]
  /\ prev = NoCall
  /\ steps = 0
  /\ flight = NoFlight

\* the effect of one EmbedBlock runs
LoadEmbed(b) ==
  /\ b \in Loading(last.blocks)
  /\ \E trimmedTarget \in {TrimmedTarget(b.target)} :
       \E title \in {normalizeTitle(trimmedTarget)} :
         \E resolved \in {openByTitle(titleToPath, title)} :
           \E after \in {loadEmbed(b, trimmedTarget, resolved, disk, host.ci)} :
             last' = [last EXCEPT !.blocks = (@ \ {b}) \cup {after}
                                               \cup Nested(after, last.embeds, disk, host.ci)]
  /\ UNCHANGED <<vaultPath, host, disk, notes, titleToPath, backlinks, tagIndex, inserted, prev,
                 steps, flight>>

NextEmbed == \E b \in last.blocks : LoadEmbed(b)

\* every effect that can run does run
SpecEmbed == InitEmbed /\ [][NextEmbed]_vars /\ WF_vars(NextEmbed)

(***************************************************************************)
(* Autosave and rename in the renderer (App.tsx).  flight.open holds the   *)
(* paths of openNotes and flight.timers the save timeouts that have not    *)
(* fired, by the path they were scheduled for, each with the content it    *)
(* will write.  A run starts with a vault open and built and every note    *)
(* of it open in a tab.                                                    *)
(***************************************************************************)
\* what the editor is given to save
SaveTexts == {TextPlain, TextSpaced}

\* scheduleSave: a timeout pending for the path is cleared, a new one is set
scheduleSave(timers, notePath, content) == MapSet(timers, notePath, content)

\* openNotes after a successful rename
renamedNotes(open, sourcePath, targetPath) ==
  {IF p = sourcePath THEN targetPath ELSE p : p \in open}

InitSave ==
  /\ vaultPath = Root
  /\ host \in Hosts
  /\ disk \in InitialDisks
  /\ \E order \in Orders(getAllMarkdownFiles(disk, Root)) :
       \E ix \in {build(disk, host.ci, Root, order)} :
         /\ notes = ix.notes
         /\ titleToPath = ix.titleToPath
         /\ backlinks = ix.backlinks
         /\ tagIndex = ix.tagIndex
         /\ inserted = ix.inserted
         /\ flight = [NoFlight EXCEPT !.open = NotePaths(ix.notes)]
  /\ last = NoCall
  /\ prev = NoCall
  /\ steps = 0

\* the step of the renderer, which leaves it in the state fl
StepSave(call, fl) ==
  /\ steps' = steps + 1
  /\ last' = call
  /\ prev' = IF last.op \in {"applyRename", "prepareRename"} THEN last ELSE NoCall
  /\ flight' = fl
  /\ UNCHANGED host

\* updateContent: the user edits an open note
UpdateContent(notePath, content) ==
  /\ CanStep
  /\ notePath \in flight.open
  /\ Untouched
  /\ StepSave(Call("updateContent", notePath, Null),
              [flight EXCEPT !.timers = scheduleSave(@, notePath, content)])

\* a save timeout fires: vaultApi.writeFile with the path and the content it
\* was scheduled with, handled by file:write
SaveFires(notePath) ==
  /\ CanStep
  /\ notePath \in DOMAIN flight.timers
  /\ disk' = writeFile(disk, host.ci, notePath, flight.timers[notePath])
  /\ \E ix \in {updateFile(Index, disk', host.ci, vaultPath, notePath)} : SetIndex(ix)
  /\ UNCHANGED vaultPath
  /\ StepSave(Call("file:write", notePath, Null),
              [flight EXCEPT !.timers = MapDelete(@, notePath)])

\* applyRename of App: entry:applyRename and, when it succeeds, the open
\* notes renamed
RenameOpen(sourcePath, targetPath) ==
  /\ CanStep
  /\ sourcePath \in flight.open
  /\ \E run \in {applyRename(disk, Index, host, vaultPath, sourcePath, targetPath, 0, steps)} :
       /\ disk' = run.disk
       /\ SetIndex(run.ix)
       /\ UNCHANGED vaultPath
       /\ StepSave([run.call EXCEPT !.pre = Pre],
                   IF run.call.ok
                     THEN [flight EXCEPT !.open = renamedNotes(@, sourcePath, targetPath)]
                     ELSE flight)

NextSave ==
  \/ \E f \in NotePathsUsed, content \in SaveTexts : UpdateContent(f, content)
  \/ \E f \in NotePathsUsed : SaveFires(f)
  \/ \E r \in RenamesUsed : RenameOpen(r[1], r[2])

SpecSave == InitSave /\ [][NextSave]_vars

(***************************************************************************)
(* The fuzzy matcher on its own: a run scores one query against one        *)
(* target, with the matcher of the main process or that of the palette.    *)
(***************************************************************************)
NoCallYet == last = NoCall

Scored(op, query, target, score) == [op |-> op, src |-> query, tgt |-> target, score |-> score]

IndexUntouched == UNCHANGED <<vaultPath, host, disk, notes, titleToPath, backlinks, tagIndex, inserted, prev, steps, flight>>

FuzzyScore(query, target) ==
  /\ NoCallYet
  /\ last' = Scored("fuzzyScore", query, target, fuzzyScore(query, target))
  /\ IndexUntouched

FuzzyScorePalette(query, target) ==
  /\ NoCallYet
  /\ last' = Scored("fuzzyScorePalette", query, target, fuzzyScorePalette(query, target))
  /\ IndexUntouched

NextFuzzy ==
  \/ \E query \in StringsUpTo(MaxQueryLen), target \in StringsUpTo(MaxTargetLen) : FuzzyScore(query, target)
  \/ \E query \in StringsUpTo(MaxQueryLen), target \in StringsUpTo(MaxTargetLen) : FuzzyScorePalette(query, target)

SpecFuzzy == Init /\ [][NextFuzzy]_vars

(***************************************************************************)
(* Search on its own: a run starts with a vault set and its index built,   *)
(* and makes one query.                                                    *)
(***************************************************************************)
IndexIs(ix) ==
  /\ notes = ix.notes
  /\ titleToPath = ix.titleToPath
  /\ backlinks = ix.backlinks
  /\ tagIndex = ix.tagIndex
  /\ inserted = ix.inserted

InitSearch ==
  /\ vaultPath = Root
  /\ host = [platform |-> "linux", ci |-> FALSE]
  /\ \E files \in SearchInputs :
       /\ disk = DiskOf(files)
       /\ IndexIs(build(DiskOf(files), FALSE, Root, OrderOf(files)))
  /\ last = NoCall
  /\ prev = NoCall
  /\ steps = 1
  /\ flight = NoFlight

\* the queries of the index; none of their handlers calls ensureVaultSet
QueryOps ==
  {"search", "searchNotes", "getTagSummary", "getNotesForTag", "openByTitle", "noteExists",
   "getBacklinks", "getLocalGraph"}

\* what a query handler returns: it has thrown nothing
Answer(op, src, found) == [op |-> op, src |-> src, threw |-> FALSE, found |-> found]

\* a run makes one query, after which it ends
NoQueryYet == last.op \notin QueryOps

\* note:quickSwitch
QuickSwitch(query) ==
  /\ NoQueryYet
  /\ last' = Answer("searchNotes", query, searchNotes(notes, vaultPath, query))
  /\ IndexUntouched

\* search:query
Search(query) ==
  /\ NoQueryYet
  /\ last' = Answer("search", query, search(notes, query))
  /\ IndexUntouched

\* tags:getSummary
TagSummary ==
  /\ NoQueryYet
  /\ last' = Answer("getTagSummary", Null, getTagSummary(tagIndex))
  /\ IndexUntouched

\* tags:getNotes
TagNotes(tag) ==
  /\ NoQueryYet
  /\ last' = Answer("getNotesForTag", tag, getNotesForTag(Index, tag))
  /\ IndexUntouched

\* note:openByTitle
OpenByTitle(title) ==
  /\ NoQueryYet
  /\ last' = Answer("openByTitle", title, openByTitle(titleToPath, title))
  /\ IndexUntouched

\* note:exists
NoteExists(title) ==
  /\ NoQueryYet
  /\ last' = Answer("noteExists", title, noteExists(titleToPath, title))
  /\ IndexUntouched

\* backlinks:get
BacklinksGet(filePath) ==
  /\ NoQueryYet
  /\ last' = Answer("getBacklinks", filePath, getBacklinks(backlinks, filePath))
  /\ IndexUntouched

\* graph:local
GraphLocal(filePath) ==
  /\ NoQueryYet
  /\ last' = Answer("getLocalGraph", filePath, getLocalGraph(Index, filePath))
  /\ IndexUntouched

NextSearch ==
  \/ \E query \in QuickQueries : QuickSwitch(query)
  \/ \E query \in SearchQueries : Search(query)
  \/ TagSummary

SpecSearch == InitSearch /\ [][NextSearch]_vars

(***************************************************************************)
(* The handlers and the queries together: a run is a run of the handlers   *)
(* that ends with one query of the index as the handlers left it.          *)
(***************************************************************************)
NextQuery ==
  \/ NoQueryYet /\ Next
  \/ \E query \in QuickQueriesUsed : QuickSwitch(query)
  \/ \E query \in SearchQueriesUsed : Search(query)
  \/ TagSummary
  \/ \E tag \in TagsUsed : TagNotes(tag)
  \/ \E title \in TitlesUsed : OpenByTitle(title)
  \/ \E title \in TitlesUsed : NoteExists(title)
  \/ \E filePath \in NotePathsUsed : BacklinksGet(filePath)
  \/ \E filePath \in NotePathsUsed : GraphLocal(filePath)

SpecQuery == Init /\ [][NextQuery]_vars

(***************************************************************************)
(* parseTags on its own: a run parses the content made of some lines.      *)
(***************************************************************************)
ParseTags(lines, eol) ==
  /\ NoCallYet
  /\ last' = [op |-> "parseTags", src |-> JoinLines(lines, eol), lines |-> lines,
              found |-> parseTags(JoinLines(lines, eol))]
  /\ IndexUntouched

NextTags ==
  \E n \in 1..MaxLines : \E lines \in [1..n -> TagLines], eol \in LineEnds : ParseTags(lines, eol)

SpecTags == Init /\ [][NextTags]_vars

(***************************************************************************)
(* Properties of the index                                                 *)
(***************************************************************************)
\* the entry of a registered path
EntryOf(ns, p) == ns[NoteAt(ns, p)]

\* the registered notes one of whose extracted link targets the Title
\* Resolver t2p maps to P
LinkingNotes(ns, t2p, P) ==
  {q \in NotePaths(ns) :
     \E j \in DOMAIN EntryOf(ns, q).links : MapGet(t2p, EntryOf(ns, q).links[j]) = P}

PathsKnown == NotePathsUsed \cup {PathImg} \cup DOMAIN backlinks \cup NotePaths(notes)

\* C1: after any sequence of completed operations, for every path P
\* getBacklinks(P) is exactly the set of registered paths with a link target
\* that titleToPath maps to P, and a path nothing links to has no entry in
\* backlinks.
C1_BacklinksExact ==
  \A P \in PathsKnown :
    /\ Range(getBacklinks(backlinks, P)) = LinkingNotes(notes, titleToPath, P)
    /\ (LinkingNotes(notes, titleToPath, P) = {} => P \notin DOMAIN backlinks)

\* the normalized title a path is registered under
TitleKey(p) == normalizeTitle(noteTitleFromPath(p))

ResolverValues == {titleToPath[k] : k \in DOMAIN titleToPath}

\* C2 as stated: the values of titleToPath are exactly the registered paths,
\* and every registered path is under exactly one key, its normalized title.
C2_ResolverCoversRegistry ==
  /\ ResolverValues = NotePaths(notes)
  /\ \A p \in NotePaths(notes) :
       {k \in DOMAIN titleToPath : titleToPath[k] = p} = {TitleKey(p)}

\* C2 amended: every value of titleToPath is a registered path and is held
\* under one key only, its own normalized title; a registered path can be
\* missing from the values when a note of the same normalized title is or
\* was registered.
C2_ResolverValuesRegistered ==
  \A k \in DOMAIN titleToPath :
    /\ titleToPath[k] \in NotePaths(notes)
    /\ TitleKey(titleToPath[k]) = k

\* two registered notes share a normalized title, which maps to one of them
C2_Witness ==
  \E p, q \in NotePaths(notes) :
    /\ p # q
    /\ TitleKey(p) = TitleKey(q)
    /\ MapGet(titleToPath, TitleKey(p)) = q

\* the registered path of normalized title t whose latest insertion is the
\* most recent
LatestInserted(t) ==
  LET same == {i \in DOMAIN inserted : TitleKey(inserted[i]) = t}
  IN inserted[CHOOSE i \in same : \A j \in same : j <= i]

\* C3: for every registered note N, resolveTitle and openByTitle of N's
\* normalized title return the path of the registered note of that title
\* inserted last: N's own path unless a note of the same title was inserted
\* after it.
C3_LastWriteWins ==
  \A i \in DOMAIN notes :
    /\ resolveTitle(notes[i].lowerTitle, titleToPath) = LatestInserted(notes[i].lowerTitle)
    /\ openByTitle(titleToPath, notes[i].lowerTitle) = LatestInserted(notes[i].lowerTitle)

(***************************************************************************)
(* Properties of rename.  They read the record of the last call: its       *)
(* arguments, its result, its I/O calls in order, and the files and the    *)
(* index it was called with.                                               *)
(***************************************************************************)
Renamed(c) == c.op = "applyRename" /\ ~c.threw

\* the backlink set of the source of call c when c was made
BacklinkSet(c) == Range(getBacklinks(c.pre.ix.backlinks, c.src))

\* the affected files of call c in processing order: the backlink set
\* sorted, the source named by the target
AffectedList(c) ==
  LET sorted == SortLocale(getBacklinks(c.pre.ix.backlinks, c.src))
  IN [k \in DOMAIN sorted |-> IF sorted[k] = c.src THEN c.tgt ELSE sorted[k]]

\* call c got as far as the loop over the affected files: the source is a
\* note, it is moved, and its title changes
Moved(c) ==
  /\ c.error # "already exists"
  /\ \A k \in DOMAIN c.io : ~(c.io[k].call = "rename" /\ c.io[k].failed)

RewritesLinks(c) ==
  /\ Renamed(c)
  /\ Moved(c)
  /\ isMarkdownFile(c.src)
  /\ noteTitleFromPath(c.src) # noteTitleFromPath(c.tgt)

\* the positions of the reads of the loop in the I/O calls of c
ReadsAt(c) == {k \in DOMAIN c.io : c.io[k].call = "read"}

\* the position of the i-th read
NthRead(c, i) == CHOOSE k \in ReadsAt(c) : Cardinality({j \in ReadsAt(c) : j <= k}) = i

\* what the file read at position k holds once the loop is done with it
ContentAfter(c, k) ==
  IF k < Len(c.io) /\ c.io[k + 1].call = "write" /\ ~c.io[k + 1].failed
    THEN c.io[k + 1].content
    ELSE c.io[k].content

Tokens(content) == WikiMatches(content, 1)

TokenText(content, m) == SubSeq(content, m.start, m.next - 1)

\* the target of token m, trimmed and lowercased, resolves through snapshot to S
ResolvesTo(m, snapshot, S) == MapGet(snapshot, toLowerCase(trim(m.target))) = S

\* the text of content before token k of ms, after the last token for k = Len(ms) + 1
Gap(content, ms, k) ==
  SubSeq(content, IF k = 1 THEN 1 ELSE ms[k - 1].next,
         IF k > Len(ms) THEN Len(content) ELSE ms[k].start - 1)

\* content with each token that resolves to S given the target newTitle, its
\* embed marker and alias segment kept, and all other text kept
RECURSIVE Retitled(_, _, _, _, _, _)
Retitled(content, ms, k, snapshot, S, newTitle) ==
  IF k > Len(ms) THEN Gap(content, ms, k)
  ELSE Gap(content, ms, k)
       \o (IF ResolvesTo(ms[k], snapshot, S)
             THEN ms[k].embed \o <<"[", "[">> \o newTitle \o ms[k].alias \o <<"]", "]">>
             ELSE TokenText(content, ms[k]))
       \o Retitled(content, ms, k + 1, snapshot, S, newTitle)

RetitledFor(c, content) ==
  Retitled(content, Tokens(content), 1, c.pre.ix.titleToPath, c.src,
           noteTitleFromPath(c.tgt))

\* C4: when applyRename succeeds for a note whose title changes, every
\* affected file is read in processing order and left with each token that
\* resolves through the snapshot to S retitled to newTitle, embed marker
\* and alias segment verbatim, all other text unchanged; updatedFiles lists
\* every affected file, the renamed note under T.
C4_LinksRetitled ==
  (RewritesLinks(last) /\ last.ok) =>
    /\ last.updatedFiles = AffectedList(last)
    /\ Cardinality(ReadsAt(last)) = Len(AffectedList(last))
    /\ \A i \in DOMAIN AffectedList(last) :
         /\ last.io[NthRead(last, i)].path = AffectedList(last)[i]
         /\ ContentAfter(last, NthRead(last, i))
              = RetitledFor(last, last.io[NthRead(last, i)].content)
         /\ (\A j \in DOMAIN AffectedList(last) :
               j > i => AffectedList(last)[j] # AffectedList(last)[i])
            => readFile(disk, host.ci, AffectedList(last)[i])
                 = RetitledFor(last, last.io[NthRead(last, i)].content)

\* "![[b|n]] [[b]]"
TextEmbedAliasRetitled ==
  <<"!", "[", "[", "b", "|", "n", "]", "]", " ", "[", "[", "b", "]", "]">>

\* a successful rename has rewritten an embed with an alias and a plain link
C4_Witness ==
  /\ RewritesLinks(last) /\ last.ok
  /\ \E k \in DOMAIN last.io :
       /\ last.io[k].call = "write"
       /\ last.io[k - 1].content = TextEmbedAlias
       /\ last.io[k].content = TextEmbedAliasRetitled
       /\ readFile(disk, host.ci, last.io[k].path) = TextEmbedAliasRetitled

\* the successful writes of call c
WritesAt(c) == {k \in DOMAIN c.io : c.io[k].call = "write" /\ ~c.io[k].failed}

\* another registered note has the normalized title of the source of c, and
\* the Title Resolver maps the title to it
TitleHeldByOther(c) ==
  \E q \in NotePaths(c.pre.ix.notes) :
    /\ q # c.src
    /\ TitleKey(q) = TitleKey(c.src)
    /\ MapGet(c.pre.ix.titleToPath, TitleKey(c.src)) = q

\* the content every file of d2 holds is the one that it, or else the file
\* at path moved, held in d1
ContentsKept(d1, d2, ci, moved) ==
  \A f \in DOMAIN d2 : d2[f] = IF f \in DOMAIN d1 THEN d1[f] ELSE readFile(d1, ci, moved)

\* C5: applyRename changes no token whose target does not resolve through
\* the snapshot to S: a written file has the tokens of the file read, and
\* each token that does not resolve to S has its text unchanged; when another
\* registered note holds the title of S in the Title Resolver, no file is
\* written and every file keeps its content.
C5_OtherLinksKept ==
  Renamed(last) =>
    /\ \A k \in WritesAt(last) :
         /\ Len(Tokens(last.io[k].content)) = Len(Tokens(last.io[k - 1].content))
         /\ \A j \in DOMAIN Tokens(last.io[k - 1].content) :
              ~ResolvesTo(Tokens(last.io[k - 1].content)[j], last.pre.ix.titleToPath, last.src)
              => TokenText(last.io[k].content, Tokens(last.io[k].content)[j])
                   = TokenText(last.io[k - 1].content, Tokens(last.io[k - 1].content)[j])
    /\ TitleHeldByOther(last) =>
         /\ WritesAt(last) = {}
         /\ ContentsKept(last.pre.disk, disk, host.ci, last.src)

\* a file with a link to S and a link to another note has been rewritten
C5_Witness ==
  /\ Renamed(last)
  /\ \E k \in WritesAt(last) :
       \E i, j \in DOMAIN Tokens(last.io[k - 1].content) :
         /\ ResolvesTo(Tokens(last.io[k - 1].content)[i], last.pre.ix.titleToPath, last.src)
         /\ ~ResolvesTo(Tokens(last.io[k - 1].content)[j], last.pre.ix.titleToPath, last.src)

\* a note whose title the Title Resolver maps to another note has been renamed
C5_WitnessSharedTitle ==
  /\ RewritesLinks(last) /\ last.ok
  /\ TitleHeldByOther(last)

\* the position of the read or write of the loop that threw in call c, 0 when none did
FailedAt(c) ==
  IF \E k \in DOMAIN c.io : c.io[k].failed /\ c.io[k].call \in {"read", "write"}
    THEN CHOOSE k \in DOMAIN c.io : c.io[k].failed /\ c.io[k].call \in {"read", "write"}
    ELSE 0

\* the number of files read up to position k
ReadsUpTo(c, k) == Cardinality({j \in ReadsAt(c) : j <= k})

\* C6: when the read or the write of the i-th affected file throws, the
\* result is ok:false with an error, updatedFiles is the first i-1 affected
\* files, failedFiles is the i-th and all later ones, the files before were
\* read in processing order and no I/O call follows the one that threw.
C6_PartialFailure ==
  (Renamed(last) /\ FailedAt(last) # 0) =>
    /\ ~last.ok
    /\ last.error # ""
    /\ ReadsUpTo(last, FailedAt(last)) <= Len(AffectedList(last))
    /\ last.io[FailedAt(last)].path = AffectedList(last)[ReadsUpTo(last, FailedAt(last))]
    /\ last.updatedFiles
         = SubSeq(AffectedList(last), 1, ReadsUpTo(last, FailedAt(last)) - 1)
    /\ last.failedFiles
         = SubSeq(AffectedList(last), ReadsUpTo(last, FailedAt(last)),
                  Len(AffectedList(last)))
    /\ \A i \in 1..ReadsUpTo(last, FailedAt(last)) :
         last.io[NthRead(last, i)].path = AffectedList(last)[i]
    /\ FailedAt(last) = Len(last.io)

\* the write of the first of two affected files has thrown
C6_Witness ==
  /\ Renamed(last)
  /\ FailedAt(last) # 0
  /\ last.io[FailedAt(last)].call = "write"
  /\ Len(last.failedFiles) > 1
  /\ last.failedFiles[1] # last.failedFiles[2]

\* the read of the second of two affected files has thrown
C6_WitnessSecond ==
  /\ Renamed(last)
  /\ FailedAt(last) # 0
  /\ last.io[FailedAt(last)].call = "read"
  /\ Len(last.updatedFiles) = 1
  /\ last.failedFiles # <<>>

\* C7 as stated: for every result of applyRename, updatedFiles and
\* failedFiles are disjoint and their union is the backlink set of S with S
\* named by T.
C7_ListsPartitionBacklinks ==
  Renamed(last) =>
    /\ Range(last.updatedFiles) \cap Range(last.failedFiles) = {}
    /\ Range(last.updatedFiles) \cup Range(last.failedFiles)
         = {IF q = last.src THEN last.tgt ELSE q : q \in BacklinkSet(last)}

\* C7 amended: updatedFiles followed by failedFiles is the list of affected
\* files in processing order when S is a note that is moved and changes its
\* title, and both are empty in every other result; the two are disjoint
\* unless S and T are both in the backlink set of S.
C7_ListsSplitAffected ==
  Renamed(last) =>
    /\ last.updatedFiles \o last.failedFiles
         = IF RewritesLinks(last) THEN AffectedList(last) ELSE <<>>
    /\ ~(last.src \in BacklinkSet(last) /\ last.tgt \in BacklinkSet(last))
         => Range(last.updatedFiles) \cap Range(last.failedFiles) = {}

\* a rename has left files updated and files failed
C7_Witness ==
  /\ RewritesLinks(last)
  /\ last.updatedFiles # <<>>
  /\ last.failedFiles # <<>>

\* a note with backlinks has been moved without a change of title
C7_WitnessMove ==
  /\ Renamed(last) /\ last.ok
  /\ ~RewritesLinks(last)
  /\ BacklinkSet(last) # {}

\* a file system entry exists at path p of the files d on host h
EntryAt(d, h, p) ==
  \E f \in DOMAIN d : f = p \/ (h.ci /\ toLowerCase(f) = toLowerCase(p))

\* the rename of call c changes the case of letters only, on a platform
\* that ignores case
CaseChangeOnly(c, h) ==
  /\ c.src # c.tgt
  /\ toLowerCase(c.src) = toLowerCase(c.tgt)
  /\ h.platform \in {"win32", "darwin"}

Conflicting(c, h) ==
  /\ Renamed(c)
  /\ c.src # c.tgt
  /\ EntryAt(c.pre.disk, h, c.tgt)
  /\ ~CaseChangeOnly(c, h)

\* C8: when S differs from T, an entry exists at T and the rename is not a
\* change of case on a platform that ignores case, applyRename returns
\* ok:false with the error "already exists" and both lists empty, makes no
\* I/O call that moves or writes a file, and leaves the files, the registry
\* and the derived indexes as they were.
C8_ConflictRefused ==
  Conflicting(last, host) =>
    /\ ~last.ok
    /\ last.error = "already exists"
    /\ last.updatedFiles = <<>>
    /\ last.failedFiles = <<>>
    /\ last.io = <<>>
    /\ disk = last.pre.disk
    /\ Index = last.pre.ix

\* a note with backlinks has been refused a target that exists
C8_Witness ==
  /\ Conflicting(last, host)
  /\ isMarkdownFile(last.src)
  /\ BacklinkSet(last) # {}
  /\ noteTitleFromPath(last.src) # noteTitleFromPath(last.tgt)

\* list is the members of set without repetition, in the order of localeCompare
SortedListOf(list, set) ==
  /\ Range(list) = set
  /\ Len(list) = Cardinality(set)
  /\ \A i, j \in DOMAIN list : i < j => localeCompare(list[i], list[j]) <= 0

\* C9: prepareRename leaves the registry, the Title Resolver, backlinks, the
\* tag index and every file as they were; its affectedFiles is the backlink
\* set of S at the call, sorted, and is empty when S is no note.
C9_PreviewIsPure ==
  (last.op = "prepareRename" /\ ~last.threw) =>
    /\ disk = last.pre.disk
    /\ Index = last.pre.ix
    /\ IF isMarkdownFile(last.src)
         THEN SortedListOf(last.affectedFiles, BacklinkSet(last))
         ELSE last.affectedFiles = <<>>

\* a preview has listed two files in another order than backlinks holds them
C9_Witness ==
  /\ last.op = "prepareRename" /\ ~last.threw
  /\ Len(last.affectedFiles) = 2
  /\ last.affectedFiles # getBacklinks(last.pre.ix.backlinks, last.src)

\* the last two calls renamed a note from A to B and back, both with success
RoundTrip ==
  /\ Renamed(prev) /\ prev.ok
  /\ Renamed(last) /\ last.ok
  /\ prev.src # prev.tgt
  /\ last.src = prev.tgt
  /\ last.tgt = prev.src

\* C10: when applyRename(A,B) and then applyRename(B,A) succeed with no
\* operation between them, every file of the affected set of the first
\* rename holds the content it held before the first rename.
C10_RoundTripRestores ==
  RoundTrip =>
    \A f \in BacklinkSet(prev) :
      existsSync(prev.pre.disk, host.ci, f) =>
        /\ existsSync(disk, host.ci, f)
        /\ readFile(disk, host.ci, f) = readFile(prev.pre.disk, host.ci, f)

(***************************************************************************)
(* Properties of a rename that succeeded                                   *)
(***************************************************************************)
\* call c renamed a note and returned ok:true
RenamedNote(c) == Renamed(c) /\ c.ok /\ isMarkdownFile(c.src)

\* the backlink set of the source when c was made, the source named by the
\* target
FormerBacklinks(c) == {IF q = c.src THEN c.tgt ELSE q : q \in BacklinkSet(c)}

\* C11: after applyRename(S,T) returns ok:true for a note S, S is no longer
\* registered, T is registered, and every note that was in getBacklinks(S)
\* just before the rename, S itself taken as T, is in getBacklinks(T).
C11_RenameKeepsBacklinks ==
  RenamedNote(last) =>
    /\ last.src \notin NotePaths(notes)
    /\ last.tgt \in NotePaths(notes)
    /\ FormerBacklinks(last) \subseteq Range(getBacklinks(backlinks, last.tgt))


\* call c moved a note to a path of the same title text
PureMove(c) ==
  /\ Renamed(c)
  /\ Moved(c)
  /\ isMarkdownFile(c.src)
  /\ c.src # c.tgt
  /\ noteTitleFromPath(c.src) = noteTitleFromPath(c.tgt)

\* call c read and rewrote no file
NothingRewritten(c) ==
  /\ c.updatedFiles = <<>>
  /\ c.failedFiles = <<>>
  /\ ReadsAt(c) = {}
  /\ WritesAt(c) = {}

SourceHeldTitle(c) ==
  /\ MapGet(c.pre.ix.titleToPath, TitleKey(c.src)) = c.src
  /\ readFile(c.pre.disk, host.ci, c.src) = EntryOf(c.pre.ix.notes, c.src).content

C12_WitnessSharedTitle ==
  /\ PureMove(last)
  /\ last.ok
  /\ last.src \in NotePaths(last.pre.ix.notes)
  /\ MapGet(last.pre.ix.titleToPath, TitleKey(last.src)) \in NotePaths(last.pre.ix.notes) \ {last.src}
  /\ Range(getBacklinks(backlinks, last.tgt)) # FormerBacklinks(last)

(***************************************************************************)
(* Properties of updateFile                                                *)
(***************************************************************************)
\* the registry, the Title Resolver, the backlinks and the tag index of ix
Derived(ix) == <<ix.notes, ix.titleToPath, ix.backlinks, ix.tagIndex>>

\* the last call was updateFile(path): the watcher's handler or file:write
Updated(c) == c.op \in {"updateFile", "file:write"} /\ ~c.threw

\* C13: a second updateFile(path), the file unchanged and no operation in
\* between, leaves the registry, the Title Resolver, the backlinks and the
\* tag index as the first call left them.
C13_UpdateIdempotent ==
  Updated(last) =>
    Derived(updateFile(Index, disk, host.ci, vaultPath, last.src)) = Derived(Index)

\* the updated note links to a registered note and shares its title with
\* another registered note
C13_Witness ==
  /\ Updated(last)
  /\ last.src \in NotePaths(notes)
  /\ EntryOf(notes, last.src).content = readFile(disk, host.ci, last.src)
  /\ EntryOf(notes, last.src).links # <<>>
  /\ \E q \in NotePaths(notes) \ {last.src} : TitleKey(q) = TitleKey(last.src)
  /\ backlinks # EmptyMap

(***************************************************************************)
(* Properties of the fuzzy matcher                                         *)
(***************************************************************************)
\* q from its character i on is a subsequence of t from its character j on
RECURSIVE SubsequenceFrom(_, _, _, _)
SubsequenceFrom(q, t, i, j) ==
  \/ i > Len(q)
  \/ /\ j <= Len(t)
     /\ \/ q[i] = t[j] /\ SubsequenceFrom(q, t, i + 1, j + 1)
        \/ SubsequenceFrom(q, t, i, j + 1)

IsSubsequence(q, t) == SubsequenceFrom(q, t, 1, 1)

ScoredBy(op) == last.op = op

\* C14 as stated: for all q and t either matcher gives 0 when q is not a
\* subsequence of t, letter case ignored, and more than 0 when it is, the
\* empty query and the empty target included.
C14_FuzzyScoreSubsequence ==
  (ScoredBy("fuzzyScore") \/ ScoredBy("fuzzyScorePalette")) =>
    /\ last.score.num >= 0
    /\ Positive(last.score) <=> IsSubsequence(toLowerCase(last.src), toLowerCase(last.tgt))

\* C14 amended: the matcher of the main process gives more than 0 exactly
\* when q is not empty and is a subsequence of t as written, and 0
\* otherwise; the matcher of the palette gives more than 0 exactly when q,
\* lowercased and trimmed, is a subsequence of t lowercased (1 when it is
\* empty), and 0 otherwise.
C14_FuzzyScorePositive ==
  /\ ScoredBy("fuzzyScore") =>
       /\ last.score.num >= 0
       /\ Positive(last.score) <=> (last.src # <<>> /\ IsSubsequence(last.src, last.tgt))
  /\ ScoredBy("fuzzyScorePalette") =>
       /\ last.score.num >= 0
       /\ Positive(last.score) <=>
            IsSubsequence(trim(toLowerCase(last.src)), toLowerCase(last.tgt))
       /\ trim(toLowerCase(last.src)) = <<>> => last.score = Ratio(1, 1)

\* a query of two characters found apart in the target, by the main matcher
C14_Witness ==
  /\ ScoredBy("fuzzyScore")
  /\ last.src = <<"a", "a">>
  /\ last.tgt = <<"a", " ", "a">>
  /\ last.score = Ratio(3, 3)

\* the palette scores a query it has to trim and lowercase
C14_WitnessPalette ==
  /\ ScoredBy("fuzzyScorePalette")
  /\ last.src = <<" ", "A">>
  /\ last.tgt = <<" ", "a">>
  /\ last.score = Ratio(1, 2)

(***************************************************************************)
(* Properties of quick switch.  They read the record of the query made:    *)
(* the query and what searchNotes found in the registry of the state.      *)
(***************************************************************************)
QuickSwitched == last.op = "searchNotes"

\* the query as searchNotes normalizes it
Asked == normalizeTitle(last.src)

Results == last.found.results

\* the registered note at path p matches the query on its title, on its path
TitleMatch(p) == Asked # <<>> /\ IsSubsequence(Asked, TitleKey(p))

PathMatch(p) == Asked # <<>> /\ IsSubsequence(Asked, toLowerCase(relative(vaultPath, p)))

\* the place of the note at path p in the results, 0 when it is not there
ResultAt(p) ==
  IF \E i \in DOMAIN Results : Results[i].path = p
    THEN CHOOSE i \in DOMAIN Results : Results[i].path = p
    ELSE 0

\* C15: every note whose normalized title matches the query is ranked
\* before every note that matches on its path only, whatever the path
\* score; a note matching neither is not in the results.
C15_TitleBeforePath ==
  QuickSwitched =>
    /\ \A i \in DOMAIN Results :
         /\ Results[i].path \in NotePaths(notes)
         /\ TitleMatch(Results[i].path) \/ PathMatch(Results[i].path)
    /\ \A p, q \in NotePaths(notes) :
         (TitleMatch(p) /\ ~TitleMatch(q) /\ ResultAt(q) # 0) =>
           (ResultAt(p) # 0 /\ ResultAt(p) < ResultAt(q))

\* a note matched on its path only has a higher score than a note matched
\* on its title, and comes after it; a third note matches neither
C15_Witness ==
  /\ QuickSwitched
  /\ \E i, j \in DOMAIN Results :
       /\ i < j
       /\ TitleMatch(Results[i].path)
       /\ ~TitleMatch(Results[j].path)
       /\ RatioCompare(Results[j].score, Results[i].score) > 0
  /\ \E p \in NotePaths(notes) : ~TitleMatch(p) /\ ~PathMatch(p)

\* results i and j are of one tier
SameTier(i, j) == TitleMatch(Results[i].path) <=> TitleMatch(Results[j].path)

\* C16 as stated: within one tier the note with the higher score is ranked
\* first, and two notes of equal score are in the order of their titles.
C16_TierByScoreThenTitle ==
  QuickSwitched =>
    \A i, j \in DOMAIN Results :
      (i < j /\ SameTier(i, j)) =>
        /\ RatioCompare(Results[i].score, Results[j].score) >= 0
        /\ RatioCompare(Results[i].score, Results[j].score) = 0 =>
             localeCompare(Results[i].title, Results[j].title) <= 0

\* the score of result i on its title and on its path
TitleScoreOf(i) == fuzzyScore(Asked, TitleKey(Results[i].path))

PathScoreOf(i) == fuzzyScore(Asked, toLowerCase(relative(vaultPath, Results[i].path)))

\* results i and j are level on both scores
Level(i, j) ==
  /\ RatioCompare(TitleScoreOf(i), TitleScoreOf(j)) = 0
  /\ RatioCompare(PathScoreOf(i), PathScoreOf(j)) = 0

\* C16 amended: within the title tier the note with the higher title score
\* is ranked first; within either tier, of two notes level on the title
\* score the one with the higher path score is ranked first; two notes
\* level on both are in the localeCompare order of their titles, and in the
\* order of the registry when the titles compare equal.
C16_TierByTitleThenPathScore ==
  QuickSwitched =>
    \A i, j \in DOMAIN Results :
      (i < j /\ SameTier(i, j)) =>
        /\ RatioCompare(TitleScoreOf(i), TitleScoreOf(j)) >= 0
        /\ RatioCompare(TitleScoreOf(i), TitleScoreOf(j)) = 0 =>
             RatioCompare(PathScoreOf(i), PathScoreOf(j)) >= 0
        /\ Level(i, j) => localeCompare(Results[i].title, Results[j].title) <= 0
        /\ (Level(i, j) /\ localeCompare(Results[i].title, Results[j].title) = 0) =>
             NoteAt(notes, Results[i].path) < NoteAt(notes, Results[j].path)

\* two notes of the title tier have the same score, and the one ranked
\* first, by its path score, has the title that comes second
C16_Witness ==
  /\ QuickSwitched
  /\ \E i, j \in DOMAIN Results :
       /\ i < j
       /\ TitleMatch(Results[i].path) /\ TitleMatch(Results[j].path)
       /\ RatioCompare(Results[i].score, Results[j].score) = 0
       /\ RatioCompare(PathScoreOf(i), PathScoreOf(j)) > 0
       /\ localeCompare(Results[i].title, Results[j].title) > 0

\* two notes level on both scores are ordered by their titles, against the
\* order of the registry
C16_WitnessTitles ==
  /\ QuickSwitched
  /\ \E i, j \in DOMAIN Results :
       /\ i < j
       /\ Level(i, j)
       /\ localeCompare(Results[i].title, Results[j].title) < 0
       /\ NoteAt(notes, Results[i].path) > NoteAt(notes, Results[j].path)

\* C17: searchNotes returns at most 50 results; hasExactMatch is true
\* exactly when the normalized title of a registered note equals the
\* trimmed, lowercased query, whether that note is returned or not; an
\* empty or white-space query gets no results and hasExactMatch false.
C17_LimitAndExactMatch ==
  QuickSwitched =>
    /\ Len(Results) <= 50
    /\ Asked # <<>> =>
         (last.found.hasExactMatch <=> \E p \in NotePaths(notes) : TitleKey(p) = Asked)
    /\ Asked = <<>> => (Results = <<>> /\ ~last.found.hasExactMatch)

\* more than 50 notes have the title asked for: 50 are returned, one is
\* not, and hasExactMatch is true
C17_Witness ==
  /\ QuickSwitched
  /\ Len(Results) = 50
  /\ last.found.hasExactMatch
  /\ \E p \in NotePaths(notes) : TitleKey(p) = Asked /\ ResultAt(p) = 0

\* a query of white space only
C17_WitnessBlank ==
  /\ QuickSwitched
  /\ last.src = <<" ">>
  /\ Results = <<>>
  /\ ~last.found.hasExactMatch

(***************************************************************************)
(* Properties of search                                                    *)
(***************************************************************************)
Searched == last.op = "search"

\* the tags a query asks for: the values of its tag: tokens, lowercased and
\* without a leading #
RequestedTags(query) ==
  {normalizeTag(SubSeq(QueryTokens(query)[k], 5, Len(QueryTokens(query)[k]))) :
     k \in {j \in DOMAIN QueryTokens(query) : IsTagToken(QueryTokens(query)[j])}} \ {<<>>}

\* the other tokens of the query
RemainingText(query) ==
  JoinWords(SelectSeq(QueryTokens(query), LAMBDA token : ~IsTagToken(token)))

\* the notes the search index returns for a text
TextHits(text) == {searchIndexSearch(notes, text)[k].id : k \in DOMAIN searchIndexSearch(notes, text)}

\* the registered notes that have every tag of tags
Tagged(tags) == {q \in NotePaths(notes) : tags \subseteq Range(EntryOf(notes, q).tags)}

\* C18: for a query with tag: tokens and free text, every result is a hit
\* of the search index for the remaining text and a note that has every
\* requested tag, and at most 50 results are returned.
C18_TagAndTextIntersect ==
  (Searched /\ RequestedTags(last.src) # {} /\ RemainingText(last.src) # <<>>) =>
    /\ Len(last.found) <= 50
    /\ \A k \in DOMAIN last.found :
         /\ last.found[k].id \in TextHits(RemainingText(last.src))
         /\ last.found[k].id \in Tagged(RequestedTags(last.src))

\* a query with a tag and a text: some notes have both and are returned, a
\* note with the tag only and a note with the text only are not
C18_Witness ==
  /\ Searched
  /\ RequestedTags(last.src) # {}
  /\ RemainingText(last.src) # <<>>
  /\ last.found # <<>>
  /\ \E q \in Tagged(RequestedTags(last.src)) : q \notin TextHits(RemainingText(last.src))
  /\ \E q \in TextHits(RemainingText(last.src)) : q \notin Tagged(RequestedTags(last.src))

\* more than 50 notes have the tag and the text: 50 are returned
C18_WitnessLimit ==
  /\ Searched
  /\ RequestedTags(last.src) # {}
  /\ Cardinality(Tagged(RequestedTags(last.src)) \cap TextHits(RemainingText(last.src))) > 50
  /\ Len(last.found) = 50

(***************************************************************************)
(* Properties of parseTags.  They read the lines the content parsed was    *)
(* made of.                                                                *)
(***************************************************************************)
Parsed == last.op = "parseTags"

\* the line starts, after its white space, with three backticks or tildes
FenceLine(line) ==
  \E k \in DOMAIN line :
    /\ \A j \in 1..(k - 1) : line[j] \in SpaceChars
    /\ k + 2 <= Len(line)
    /\ \/ \A j \in k..(k + 2) : line[j] = Backtick
       \/ \A j \in k..(k + 2) : line[j] = "~"

\* line i is outside every fenced block: it is no fence line and an even
\* number of fence lines comes before it
Outside(lines, i) ==
  /\ ~FenceLine(lines[i])
  /\ Cardinality({j \in 1..(i - 1) : FenceLine(lines[j])}) % 2 = 0

\* the hashtags of a line, lowercased: # at the start of the line or after
\* a character that is no tag character, then a letter or digit and the
\* tag characters that follow
Hashtags(line) ==
  {toLowerCase(SubSeq(line, h + 1, TagRunEnd(line, h + 1) - 1)) :
     h \in {k \in DOMAIN line :
              /\ line[k] = "#"
              /\ k < Len(line)
              /\ IsAlnum(line[k + 1])
              /\ (k = 1 \/ ~IsTagChar(line[k - 1]))}}

\* C19: a hashtag is among the tags exactly when it is on a line outside
\* every fenced block, each fence line toggling the block and being
\* skipped itself; after a fence that is not closed no tag is taken.
C19_TagsOutsideFences ==
  Parsed =>
    Range(last.found) =
      UNION {Hashtags(last.lines[i]) : i \in {j \in DOMAIN last.lines : Outside(last.lines, j)}}

\* a tag on the line before a fence is taken, and the tag on the line after
\* that fence, which nothing closes, is not
C19_Witness ==
  /\ Parsed
  /\ Len(last.lines) = 3
  /\ FenceLine(last.lines[2])
  /\ Hashtags(last.lines[1]) # {}
  /\ Hashtags(last.lines[3]) # {}
  /\ Hashtags(last.lines[3]) \cap Range(last.found) = {}
  /\ Hashtags(last.lines[1]) \subseteq Range(last.found)

(***************************************************************************)
(* Properties of the tag index                                             *)
(***************************************************************************)
\* the registered paths whose tags contain t
TaggedPaths(ns, t) == {p \in NotePaths(ns) : t \in Range(EntryOf(ns, p).tags)}

TagsKnown == DOMAIN tagIndex \cup UNION {Range(notes[i].tags) : i \in DOMAIN notes}

\* the summary lists every tag of the tag index once, with the number of
\* registered paths whose tags contain it, by count descending and then by
\* tag ascending
SummaryOf(ns, ti, summary) ==
  /\ {summary[i].tag : i \in DOMAIN summary} = DOMAIN ti
  /\ Len(summary) = Cardinality(DOMAIN ti)
  /\ \A i \in DOMAIN summary : summary[i].count = Cardinality(TaggedPaths(ns, summary[i].tag))
  /\ \A i, j \in DOMAIN summary :
       i < j => \/ summary[i].count > summary[j].count
                \/ /\ summary[i].count = summary[j].count
                   /\ localeCompare(summary[i].tag, summary[j].tag) < 0

\* C20: after any sequence of completed index operations the tag index maps
\* each tag to exactly the registered paths whose tags contain it, with no
\* empty set and no unregistered path, and getTagSummary reports for each
\* tag the size of that set, by count descending and then by tag ascending.
C20_TagIndexExact ==
  /\ \A t \in TagsKnown :
       /\ t \in DOMAIN tagIndex <=> TaggedPaths(notes, t) # {}
       /\ t \in DOMAIN tagIndex => Range(tagIndex[t]) = TaggedPaths(notes, t)
  /\ SummaryOf(notes, tagIndex, getTagSummary(tagIndex))

(***************************************************************************)
(* Properties of getLocalGraph.  They read the record of the query made    *)
(* and the index of the state, which a query leaves as it is.              *)
(***************************************************************************)
Graphed == last.op = "getLocalGraph" /\ last.src \in NotePaths(notes)

\* the links of the note asked for
GraphLinks == EntryOf(notes, last.src).links

\* the links among them that resolve to a note
Resolvable == {j \in DOMAIN GraphLinks : GraphLinks[j] \in DOMAIN titleToPath}

\* the backlink sources of the note asked for
GraphSources == Range(getBacklinks(backlinks, last.src))

\* how many edges of the graph go from f to t
EdgeCount(f, t) ==
  Cardinality({k \in DOMAIN last.found.edges : last.found.edges[k] = Edge(f, t)})

\* C21: getLocalGraph(P) for a registered note P returns as nodes P, every
\* path a link of P resolves to and every backlink source of P, each path
\* once; as edges one edge P->target for each link of P that resolves and one
\* edge source->P for each backlink source; a link that resolves to no note
\* adds no node and no edge, and nothing is thrown.
C21_LocalGraph ==
  Graphed =>
    LET P == last.src
        nodes == last.found.nodes
        targets == {titleToPath[GraphLinks[j]] : j \in Resolvable}
        ends == {P} \cup targets \cup GraphSources
    IN /\ ~last.threw
       /\ {nodes[k].path : k \in DOMAIN nodes} = ends
       /\ Len(nodes) = Cardinality(ends)
       /\ Len(last.found.edges) = Cardinality(Resolvable) + Cardinality(GraphSources)
       /\ \A f, t \in ends :
            EdgeCount(f, t) =
              (IF f = P THEN Cardinality({j \in Resolvable : titleToPath[GraphLinks[j]] = t}) ELSE 0)
              + (IF t = P /\ f \in GraphSources THEN 1 ELSE 0)

\* the note asked for has a link that resolves, a link that resolves to no
\* note and a backlink source other than itself
C21_Witness ==
  /\ Graphed
  /\ Resolvable # {}
  /\ Resolvable # DOMAIN GraphLinks
  /\ GraphSources \ {last.src} # {}
  /\ Len(last.found.edges) >= 2

(***************************************************************************)
(* Properties of the operations made before a vault is set                 *)
(***************************************************************************)
\* the operations of the engine a renderer can ask for
EngineOps == QueryOps \cup {"file:write", "entry:delete", "prepareRename", "applyRename"}

\* C22: every engine operation invoked before a vault root has been set
\* fails with a 'Vault not set' error, the queries search, quickSwitch,
\* getBacklinks, getLocalGraph, getTagSummary, getNotesForTag and openByTitle
\* included: none returns a normal result in that state.
C22_VaultNotSet ==
  (vaultPath = Null /\ last.op \in EngineOps) => last.threw

(***************************************************************************)
(* Properties of an applyRename that met a failure                         *)
(***************************************************************************)
\* applyRename was called with a vault set
RenameCalled(c) == c.op = "applyRename" /\ c.pre # Null

\* the I/O call of kind call made by c has thrown
IoFailed(c, call) == \E k \in DOMAIN c.io : c.io[k].failed /\ c.io[k].call = call

\* the conflict check of c has thrown
ConflictMet(c) == RenameConflict(c.pre.disk, host, c.src, c.tgt)

\* C23: once a vault is set applyRename never throws: a failure of the
\* conflict check, of the move, of the read or write of an affected file or
\* of the re-indexing is returned as a result with ok:false and an error
\* message.
C23_RenameNeverThrows ==
  RenameCalled(last) =>
    /\ ~last.threw
    /\ (ConflictMet(last) \/ \E call \in {"rename", "read", "write", "index"} : IoFailed(last, call))
         => (~last.ok /\ last.error # "")

\* the re-indexing has thrown after the move and a rewrite were made
C23_Witness ==
  /\ RenameCalled(last)
  /\ IoFailed(last, "index")
  /\ \E k \in DOMAIN last.io : last.io[k].call = "write" /\ ~last.io[k].failed
  /\ ~last.ok

\* the conflict check has thrown
C23_WitnessConflict == RenameCalled(last) /\ ConflictMet(last) /\ ~last.ok

(***************************************************************************)
(* Properties of what a failed applyRename leaves on the disk              *)
(***************************************************************************)
\* two paths name one file: the same path, or on a case-blind file system
\* the same path but for case
SameFile(f, g) == f = g \/ (host.ci /\ toLowerCase(f) = toLowerCase(g))

\* what the file now at path f held when call c was made
HeldBefore(c, f) == readFile(c.pre.disk, host.ci, IF SameFile(f, c.tgt) THEN c.src ELSE f)

\* that content with the links to the source of c retitled
RetitledBefore(c, f) ==
  updateWikiLinksInContent(HeldBefore(c, f), c.src, noteTitleFromPath(c.tgt),
                           c.pre.ix.titleToPath)

\* C24: after applyRename returns ok:false because the read or the write of
\* an affected file threw, the moved file is at targetPath and not at
\* sourcePath, and every file listed in updatedFiles holds its rewritten
\* content: nothing applied before the failure is undone.
C24_NoRollback ==
  (Renamed(last) /\ FailedAt(last) # 0) =>
    /\ ~last.ok
    /\ last.tgt \in DOMAIN disk
    /\ last.src \notin DOMAIN disk
    /\ disk[last.tgt] = IF \E f \in Range(last.updatedFiles) : SameFile(f, last.tgt)
                          THEN RetitledBefore(last, last.tgt)
                          ELSE HeldBefore(last, last.tgt)
    /\ \A f \in Range(last.updatedFiles) :
         /\ existsSync(disk, host.ci, f)
         /\ readFile(disk, host.ci, f) = RetitledBefore(last, f)

\* the loop has thrown after it wrote the new links into a file
C24_Witness ==
  /\ Renamed(last) /\ FailedAt(last) # 0
  /\ \E f \in Range(last.updatedFiles) :
       /\ RetitledBefore(last, f) # HeldBefore(last, f)
       /\ readFile(disk, host.ci, f) = RetitledBefore(last, f)

(***************************************************************************)
(* Properties of build                                                     *)
(***************************************************************************)
\* C28: full-vault indexing is deterministic: for a fixed set of files two
\* runs of build produce the same Title Resolver, the same winner for every
\* normalized title several notes share, whatever the order in which the
\* reads of the files complete.
C28_BuildDeterministic ==
  last.op = "vault:set" =>
    \A order \in Orders(getAllMarkdownFiles(disk, vaultPath)) :
      build(disk, host.ci, vaultPath, order).titleToPath = titleToPath

(***************************************************************************)
(* Properties of a rename that changes only the case of letters            *)
(***************************************************************************)
\* call c was asked to change the case of letters only
CaseOnly(c) ==
  /\ RenameCalled(c)
  /\ c.src # c.tgt
  /\ toLowerCase(c.src) = toLowerCase(c.tgt)

\* the fs.rename calls of c
RenamesAt(c) == {k \in DOMAIN c.io : c.io[k].call = "rename"}

\* C30: for a rename whose paths differ only in letter case: on win32 and
\* darwin the conflict check passes although the target is reported as
\* existing, and the move is made as two renames through a temporary name;
\* on any other platform a target that exists is a conflict and nothing is
\* moved.
C30_CaseOnlyRename ==
  CaseOnly(last) =>
    IF host.platform \in {"win32", "darwin"}
      THEN /\ last.error # "already exists"
           /\ 1 \in RenamesAt(last)
           /\ last.io[1].path = last.src
           /\ last.io[1].content \notin {last.src, last.tgt}
           /\ ~last.io[1].failed =>
                /\ RenamesAt(last) = {1, 2}
                /\ last.io[2].path = last.io[1].content
                /\ last.io[2].failed \/ last.io[2].content = last.tgt
                /\ ~last.io[2].failed => (last.tgt \in DOMAIN disk /\ last.src \notin DOMAIN disk)
      ELSE existsSync(last.pre.disk, host.ci, last.tgt) =>
             /\ ~last.ok
             /\ last.error = "already exists"
             /\ last.io = <<>>
             /\ disk = last.pre.disk

\* on darwin a note is renamed to its own name in upper case, the target
\* being reported as existing
C30_Witness ==
  /\ CaseOnly(last)
  /\ host.platform = "darwin"
  /\ existsSync(last.pre.disk, host.ci, last.tgt)
  /\ last.ok
  /\ RenamesAt(last) = {1, 2}
  /\ last.tgt \in DOMAIN disk

\* on linux the name in upper case is that of another file
C30_WitnessConflict ==
  /\ CaseOnly(last)
  /\ host.platform = "linux"
  /\ existsSync(last.pre.disk, host.ci, last.tgt)
  /\ ~last.ok

(***************************************************************************)
(* Properties of applyRename step by step                                  *)
(***************************************************************************)
\* an applyRename has returned after being suspended
Resumed(c) == c.op = "applyRename" /\ "began" \in DOMAIN c

\* no other call was made while it was suspended and the watcher reported
\* nothing
Alone(c) == Resumed(c) /\ steps = c.began /\ ~c.unlinkSeen /\ ~c.addSeen

\* left alone, applyRename step by step returns what applyRename returns
\* and leaves the disk and the index it leaves
StepsAgree ==
  Alone(last) =>
    LET run == applyRename(last.pre.disk, last.pre.ix, host, vaultPath, last.src, last.tgt, 0,
                           last.began - 1)
    IN /\ disk = run.disk
       /\ Index = run.ix
       /\ last.ok = run.call.ok
       /\ last.updatedFiles = run.call.updatedFiles
       /\ last.failedFiles = run.call.failedFiles
       /\ last.affectedFiles = run.call.affectedFiles
       /\ Len(last.io) = Len(run.call.io)

\* the file the suspended applyRename has read and is about to rewrite
FileInHand == flight.rename.adjustedPaths[flight.rename.index]

\* what it read with the links to its source retitled
RetitledInHand ==
  updateWikiLinksInContent(flight.rename.content, flight.rename.src,
                           noteTitleFromPath(flight.rename.tgt), flight.rename.snapshot)

\* the file was written after applyRename read it
WrittenSince ==
  /\ existsSync(disk, host.ci, FileInHand)
  /\ readFile(disk, host.ci, FileInHand) # flight.rename.content

\* C25: a lost update can happen: when a write to an affected file F lands
\* between the read of F by applyRename and its write of F, applyRename
\* writes the content it read, rewritten, and the content of the write in
\* between is no longer on the disk, both operations having reported
\* success.
C25_LostUpdate ==
  [][(/\ flight.rename.pc = "write"
      /\ flight'.rename.pc # "write"
      /\ WrittenSince
      /\ RetitledInHand # flight.rename.content)
       => /\ readFile(disk', host.ci, FileInHand) = RetitledInHand
          /\ FileInHand \in Range(flight'.rename.updatedFiles) \/ FileInHand \in Range(last'.updatedFiles)]_vars

\* the writes of call c that replaced a content other than the one read
LostAt(c) ==
  {k \in DOMAIN c.io :
     /\ c.io[k].call = "write"
     /\ c.io[k].found # c.io[k - 1].content
     /\ c.io[k].found # c.io[k].content}

\* applyRename has returned ok:true and file:write had returned: what
\* file:write wrote into an affected file between the read and the write of
\* applyRename is not what the file holds
C25_Witness ==
  /\ Resumed(last) /\ last.ok
  /\ \E k \in LostAt(last) :
       /\ last.io[k].during.op = "file:write"
       /\ ~last.io[k].during.threw
       /\ last.io[k].during.src = last.io[k].path
       /\ readFile(disk, host.ci, last.io[k].path) = last.io[k].content
       /\ readFile(disk, host.ci, last.io[k].path) # last.io[k].found

\* the same with the file edited by another program
C25_WitnessExternal ==
  /\ Resumed(last) /\ last.ok
  /\ \E k \in LostAt(last) :
       /\ last.io[k].during.op = "external write"
       /\ last.io[k].during.src = last.io[k].path
       /\ readFile(disk, host.ci, last.io[k].path) = last.io[k].content

\* the applyRename calls whose snapshot is taken: the one suspended in its
\* loops and the one that has returned
Snapshots ==
  (IF flight.rename.pc \in {"read", "write", "index"} THEN {flight.rename} ELSE {})
  \cup (IF Resumed(last) /\ last.snapshot # Null THEN {last} ELSE {})

\* C26: in every execution, those included in which the watcher's
\* unlink(S) and add(T) for the move are handled while applyRename is
\* suspended on the move, the Title Resolver snapshot and the affected
\* files applyRename uses are those of the registry as it was before any
\* mutation caused by this rename.  (steps = c.began: no other call was
\* made since applyRename was called.)
C26_SnapshotBeforeMutation ==
  \A c \in Snapshots :
    steps = c.began =>
      /\ c.snapshot = c.pre.ix.titleToPath
      /\ c.affectedFiles = getAffectedFilesForRename(c.pre.ix.backlinks, c.src)

\* C27: at every point where a query can run, the points included at which
\* an applyRename is suspended between removeFile(S), its indexFileOnly
\* calls and the final rebuildDerivedIndexes, backlinks and the tag index
\* are those of the current registry and Title Resolver.
C27_DerivedFollowRegistry ==
  /\ \A P \in PathsKnown :
       Range(getBacklinks(backlinks, P)) = LinkingNotes(notes, titleToPath, P)
  /\ \A t \in TagsKnown :
       Range(MapGet(tagIndex, t)) = TaggedPaths(notes, t)

(***************************************************************************)
(* Properties of a vault switch                                            *)
(***************************************************************************)
\* left alone, vault:set step by step leaves what build leaves for one of
\* the orders of its inserts
BuildStepsAgree ==
  (last.op = "vault:set" /\ "mixed" \in DOMAIN last /\ ~last.mixed /\ flight = NoFlight) =>
    \E order \in Orders(getAllMarkdownFiles(disk, vaultPath)) :
      Index = build(disk, host.ci, vaultPath, order)

\* C29: after the build of a vault:set has completed, together with any
\* operation that was suspended when it started, the registry holds exactly
\* the note files of the current vault: no entry is left from the previous
\* vault or from an updateFile that overlapped the build.
C29_RegistryOfCurrentVault ==
  (flight.build = Idle /\ flight.update = Idle) =>
    NotePaths(notes) = getAllMarkdownFiles(disk, vaultPath)

(***************************************************************************)
(* Properties of the index as a whole                                      *)
(***************************************************************************)
\* C32: after any sequence of build, updateFile, removeFile and applyRename,
\* the normalized title of every registered note is a key of titleToPath
\* and maps to a registered note of that normalized title, also when
\* several notes share the title.
C32_EveryNoteResolvable ==
  \A p \in NotePaths(notes) :
    /\ TitleKey(p) \in DOMAIN titleToPath
    /\ titleToPath[TitleKey(p)] \in NotePaths(notes)
    /\ TitleKey(titleToPath[TitleKey(p)]) = TitleKey(p)

\* the paths the derived maps refer to
Referenced ==
  ResolverValues \cup DOMAIN backlinks
    \cup UNION {Range(backlinks[k]) : k \in DOMAIN backlinks}
    \cup UNION {Range(tagIndex[t]) : t \in DOMAIN tagIndex}

\* C33: in every reachable state, every path that is a value of
\* titleToPath, a key of backlinks, a member of a backlink set or a member
\* of a tag-index set is a key of the note registry.
C33_NoDanglingReferences == Referenced \subseteq NotePaths(notes)

\* a note has been removed from a registry whose derived maps referred to it,
\* and the maps of the notes that remain are not empty
C33_Witness ==
  /\ last.op \in {"removeFile", "entry:delete", "applyRename"}
  /\ last.src \notin NotePaths(notes)
  /\ isMarkdownFile(last.src)
  /\ Referenced # {}
  /\ DOMAIN backlinks # {}

\* C34: whenever applyRename returns ok:false, the note registry,
\* titleToPath, backlinks and the tag index are as they were before the
\* call, whichever step failed.
C34_FailureLeavesIndex ==
  (RenameCalled(last) /\ ~last.ok) =>
    /\ notes = last.pre.ix.notes
    /\ titleToPath = last.pre.ix.titleToPath
    /\ backlinks = last.pre.ix.backlinks
    /\ tagIndex = last.pre.ix.tagIndex

\* the registry of call c named the notes on the disk when c was made
InStepBefore(c) ==
  NotePaths(c.pre.ix.notes) = getAllMarkdownFiles(c.pre.disk, vaultPath)

\* C35: after applyRename returns ok:true, nothing else being done, the
\* registered paths are the note files on the disk within the vault,
\* whether a file that is no note was renamed to a note name, a note to a
\* name that is none, or a folder holding notes was renamed.
C35_RegistryMatchesDisk ==
  (RenameCalled(last) /\ last.ok /\ InStepBefore(last)) =>
    NotePaths(notes) = getAllMarkdownFiles(disk, vaultPath)

(***************************************************************************)
(* Properties of a preview followed by its rename                          *)
(***************************************************************************)
\* the files of a preview as the rename names them
Previewed(c) ==
  [i \in DOMAIN c.affectedFiles |->
     IF c.affectedFiles[i] = c.src THEN c.tgt ELSE c.affectedFiles[i]]

\* the last two operations are prepareRename(S,T) and applyRename(S,T), the
\* second has succeeded and the title has changed
PreviewApplied ==
  /\ prev.op = "prepareRename" /\ ~prev.threw
  /\ RenameCalled(last) /\ last.ok
  /\ last.src = prev.src /\ last.tgt = prev.tgt
  /\ noteTitleFromPath(last.src) # noteTitleFromPath(last.tgt)

\* C37: when prepareRename(S,T) is followed at once by applyRename(S,T) and
\* the rename succeeds with a changed title, updatedFiles is the preview's
\* affectedFiles in the same order with S replaced by T.
C37_ApplyFollowsPreview == PreviewApplied => last.updatedFiles = Previewed(prev)

\* a previewed rename has rewritten two files, the moved note among them
C37_Witness ==
  /\ PreviewApplied
  /\ Len(last.updatedFiles) >= 2
  /\ last.tgt \in Range(last.updatedFiles)

(***************************************************************************)
(* Properties of the exact match of quick switch                           *)
(***************************************************************************)
\* the score of a query against itself is 2, and against any other target
\* it is lower
ExactScoresHighest ==
  (ScoredBy("fuzzyScore") /\ last.src # <<>>) =>
    (RatioCompare(last.score, Ratio(2, 1)) = 0 <=> last.src = last.tgt)
      /\ RatioCompare(last.score, Ratio(2, 1)) <= 0

\* C38: whenever quickSwitch reports hasExactMatch, the first result is a
\* note whose normalized title is the normalized query: an exact title
\* match is never ranked below a partial one.
C38_ExactMatchFirst ==
  (QuickSwitched /\ last.found.hasExactMatch) =>
    /\ Results # <<>>
    /\ normalizeTitle(Results[1].title) = Asked

\* an exact match is listed before a note whose title only contains the
\* query
C38_Witness ==
  /\ QuickSwitched
  /\ last.found.hasExactMatch
  /\ \E i \in DOMAIN Results : normalizeTitle(Results[i].title) # Asked

(***************************************************************************)
(* Properties of overlapping updateFile calls                              *)
(***************************************************************************)
\* C36: once every updateFile call for a path has completed, the content
\* registered for the path is the content of the file on the disk, also
\* when the calls overlapped.
C36_OverlapConverges ==
  flight.updates = <<>> =>
    \A p \in NotePaths(notes) :
      existsSync(disk, host.ci, p) => EntryOf(notes, p).content = readFile(disk, host.ci, p)

(***************************************************************************)
(* Properties of the preview of nested embeds                              *)
(***************************************************************************)
Previewing == last.op = "preview"

\* the blocks whose effect has run
Loaded == IF Previewing THEN last.blocks \ Loading(last.blocks) ELSE {}

\* the path the target of block b resolves to
ResolvedOf(b) == openByTitle(titleToPath, normalizeTitle(TrimmedTarget(b.target)))

\* every block of the preview has loaded
Rendered == Previewing /\ Loading(last.blocks) = {}

EmbedsCapped ==
  \A b \in Loaded :
    /\ b.depth <= depthLimit + 1
    /\ b.depth > depthLimit => b.shows = "Embed depth limit reached"
    /\ (b.depth <= depthLimit /\ ResolvedOf(b) \in b.visited) =>
         b.shows = "Embed cycle detected"
    /\ b.shows = "content" =>
         /\ b.depth <= depthLimit
         /\ b.resolvedPath \notin b.visited
         /\ Cardinality(b.visited) = b.depth

RenameDone ==
  LET c == IF last.op = "applyRename" THEN last
           ELSE IF last.op = "file:write" THEN prev ELSE NoCall
  IN IF c.op = "applyRename" /\ c.ok /\ ~SameFile(c.src, c.tgt) THEN c ELSE NoCall

\* C39: after a successful applyRename(S, T) of an open note, and after a
\* save timeout that fires next, no file exists at S and S is not registered.
C39_SaveFollowsRename ==
  RenameDone # NoCall =>
    /\ ~existsSync(disk, host.ci, RenameDone.src)
    /\ RenameDone.src \notin NotePaths(notes)

=============================================================================
